---------------------------- MODULE Spec2Model ----------------------------
(***************************************************************************)
(* Financial-assistance eligibility service (one-client-view-2025tht).     *)
(*                                                                         *)
(* Two specifications share this module:                                   *)
(*   SpecElig  the pure function isEligible applied to inputs drawn from   *)
(*             bounded sets (scheme_repository.go:270-306);                *)
(*   Spec      the service: the MySQL tables and the HTTP handlers that    *)
(*             write them.  POST /api/applications advances one SQL        *)
(*             statement per step; the other handlers take one step each.  *)
(*                                                                         *)
(* Go strings are sequences of one-character strings, so that              *)
(* strings.ToLower and strings.Contains are computed, not assumed.         *)
(***************************************************************************)
EXTENDS Integers, Sequences, FiniteSets, TLC

(***************************************************************************)
(* Bounds of the model.                                                    *)
(***************************************************************************)
\* Longest household drawn for isEligible.
MaxHousehold == 2

(***************************************************************************)
(* Program constants.                                                      *)
(***************************************************************************)
\* scheme_repository.go:294  age >= 6 && age <= 12
MinPrimaryAge == 6
MaxPrimaryAge == 12

(***************************************************************************)
(* String literals of the program and of the inputs.                       *)
(***************************************************************************)
EmptyString == << >>
S_employed == <<"e","m","p","l","o","y","e","d">>
S_unemployed == <<"u","n","e","m","p","l","o","y","e","d">>
S_Unemployed == <<"U","n","e","m","p","l","o","y","e","d">>
S_UNEMPLOYED == <<"U","N","E","M","P","L","O","Y","E","D">>
S_single == <<"s","i","n","g","l","e">>
S_married == <<"m","a","r","r","i","e","d">>
S_Married == <<"M","a","r","r","i","e","d">>
S_primary == <<"p","r","i","m","a","r","y">>
S_Primary == <<"P","r","i","m","a","r","y">>
S_secondary == <<"s","e","c","o","n","d","a","r","y">>
S_son == <<"s","o","n">>
S_SON == <<"S","O","N">>
S_StepSon == <<"S","t","e","p","-","S","o","n">>
S_daughter == <<"d","a","u","g","h","t","e","r">>
S_Daughter == <<"D","a","u","g","h","t","e","r">>
S_spouse == <<"s","p","o","u","s","e">>
S_male == <<"m","a","l","e">>
S_female == <<"f","e","m","a","l","e">>
S_grandson == <<"g","r","a","n","d","s","o","n">>
S_son_in_law == <<"s","o","n","-","i","n","-","l","a","w">>
S_person == <<"p","e","r","s","o","n">>
S_PERSON == <<"P","E","R","S","O","N">>
S_pending == <<"p","e","n","d","i","n","g">>
S_approved == <<"a","p","p","r","o","v","e","d">>
S_rejected == <<"r","e","j","e","c","t","e","d">>
S_cancelled == <<"c","a","n","c","e","l","l","e","d">>

(***************************************************************************)
(* strings.ToLower and strings.Contains (Go standard library), on ASCII.   *)
(***************************************************************************)
UpperChars ==
    <<"A","B","C","D","E","F","G","H","I","J","K","L","M",
      "N","O","P","Q","R","S","T","U","V","W","X","Y","Z">>
LowerChars ==
    <<"a","b","c","d","e","f","g","h","i","j","k","l","m",
      "n","o","p","q","r","s","t","u","v","w","x","y","z">>

ToLowerChar(c) ==
    IF \E i \in 1..26 : UpperChars[i] = c
    THEN LowerChars[CHOOSE i \in 1..26 : UpperChars[i] = c]
    ELSE c

ToLower(s) == [i \in 1..Len(s) |-> ToLowerChar(s[i])]

Contains(s, substr) ==
    \E i \in 0..(Len(s) - Len(substr)) :
        SubSeq(s, i + 1, i + Len(substr)) = substr

(***************************************************************************)
(* isEligible, clause by clause.  time.Now().Year() is the parameter year; *)
(* a DateOfBirth is kept as the year DateOfBirth.Year() returns, the only  *)
(* part of the date the program reads.                                     *)
(***************************************************************************)
\* (mutant) a household member with the wanted employment status satisfies
\* the employment clause too
EmploymentClauseOfHousehold(criteria, applicant) ==
    ~ (/\ criteria.EmploymentStatus # EmptyString
       /\ ToLower(criteria.EmploymentStatus) # ToLower(applicant.EmploymentStatus)
       /\ \A k \in 1..Len(applicant.Household) :
              ToLower(criteria.EmploymentStatus)
                  # ToLower(applicant.Household[k].EmploymentStatus))

\* (mutant) the comparison without strings.ToLower
EmploymentClauseCaseSensitive(criteria, applicant) ==
    ~ (criteria.EmploymentStatus # EmptyString
       /\ criteria.EmploymentStatus # applicant.EmploymentStatus)

\* scheme_repository.go:274-277: FALSE when the clause returns false
EmploymentClause(criteria, applicant) ==
    ~ (criteria.EmploymentStatus # EmptyString
       /\ ToLower(criteria.EmploymentStatus) # ToLower(applicant.EmploymentStatus))

\* (mutant) an empty criterion is compared too
MaritalClauseAlwaysCompared(criteria, applicant) ==
    ~ (ToLower(criteria.MaritalStatus) # ToLower(applicant.MaritalStatus))

\* scheme_repository.go:280-283
MaritalClause(criteria, applicant) ==
    ~ (criteria.MaritalStatus # EmptyString
       /\ ToLower(criteria.MaritalStatus) # ToLower(applicant.MaritalStatus))

\* (mutant) a child is a member whose relation is the word son or daughter
IsChildWholeWord(member) ==
    \/ ToLower(member.Relation) = S_son
    \/ ToLower(member.Relation) = S_daughter

\* (mutant) the relation is not lower-cased
IsChildCaseSensitive(member) ==
    \/ Contains(member.Relation, S_son)
    \/ Contains(member.Relation, S_daughter)

\* scheme_repository.go:290-291
IsChild(member) ==
    \/ Contains(ToLower(member.Relation), S_son)
    \/ Contains(ToLower(member.Relation), S_daughter)

\* (mutant) upper age limit exclusive
PrimaryAgeMatchExclusive(age, schoolLevel) ==
    age >= MinPrimaryAge /\ age < MaxPrimaryAge /\ schoolLevel = S_primary

\* (mutant) the school level compared ignoring case
PrimaryAgeMatchAnyCase(age, schoolLevel) ==
    age >= MinPrimaryAge /\ age <= MaxPrimaryAge /\ ToLower(schoolLevel) = S_primary

\* scheme_repository.go:294
PrimaryAgeMatch(age, schoolLevel) ==
    age >= MinPrimaryAge /\ age <= MaxPrimaryAge /\ schoolLevel = S_primary

\* (mutant) the loop leaves at the first son or daughter, of school age or not
RECURSIVE hasEligibleChildFirstOnly(_, _, _, _)
hasEligibleChildFirstOnly(household, i, schoolLevel, year) ==
    IF i > Len(household) THEN FALSE
    ELSE LET member == household[i]
             age == year - member.DateOfBirth
         IN  IF IsChild(member)
             THEN PrimaryAgeMatch(age, schoolLevel)
             ELSE hasEligibleChildFirstOnly(household, i + 1, schoolLevel, year)

\* scheme_repository.go:288-299: the loop over the household from index i,
\* leaving at the first member that sets hasEligibleChild
RECURSIVE hasEligibleChild(_, _, _, _)
hasEligibleChild(household, i, schoolLevel, year) ==
    IF i > Len(household) THEN FALSE
    ELSE LET member == household[i]
             age == year - member.DateOfBirth
         IN  IF IsChild(member) /\ PrimaryAgeMatch(age, schoolLevel)
             THEN TRUE
             ELSE hasEligibleChild(household, i + 1, schoolLevel, year)

\* (mutant) the household is scanned whatever the school level
ChildrenClauseUnguarded(criteria, applicant, year) ==
    hasEligibleChild(applicant.Household, 1, criteria.HasChildren.SchoolLevel, year)

\* scheme_repository.go:286-303
ChildrenClause(criteria, applicant, year) ==
    IF criteria.HasChildren.SchoolLevel # EmptyString
    THEN hasEligibleChild(applicant.Household, 1,
                          criteria.HasChildren.SchoolLevel, year)
    ELSE TRUE

\* (mutant) the marital clause left out
isEligibleNoMarital(applicant, scheme, year) ==
    IF ~ EmploymentClause(scheme.Criteria, applicant) THEN FALSE
    ELSE IF ~ ChildrenClause(scheme.Criteria, applicant, year) THEN FALSE
    ELSE TRUE

\* scheme_repository.go:270-306
isEligible(applicant, scheme, year) ==
    IF ~ EmploymentClause(scheme.Criteria, applicant) THEN FALSE
    ELSE IF ~ MaritalClause(scheme.Criteria, applicant) THEN FALSE
    ELSE IF ~ ChildrenClause(scheme.Criteria, applicant, year) THEN FALSE
    ELSE TRUE

(***************************************************************************)
(* State.                                                                  *)
(***************************************************************************)
VARIABLES
    applicants,        \* table applicants: id -> row
    household_members, \* table household_members: set of rows
    schemes,           \* table schemes: id -> row, criteria as the stored JSON
    benefits,          \* table benefits: set of rows
    applications,      \* table applications: id -> row
    nextApplicationID, \* number of the next uuid.New() of ApplicationRepository.Create
    clock,             \* the year time.Now() falls in
    requests,          \* per connection: the HTTP request being served, or its response
    argApplicant,      \* SpecElig: the applicant handed to isEligible
    argScheme,         \* SpecElig: the scheme handed to isEligible
    nowYear,           \* SpecElig: time.Now().Year() at the call
    called,            \* SpecElig: whether isEligible has returned
    ret,               \* SpecElig: the boolean isEligible returned (FALSE before the call)
    otherApplicant,    \* the applicant handed to a second call of isEligible
    calledOther,       \* whether the second call has returned
    retOther,          \* the boolean the second call returned (FALSE before the call)
    at,                \* the year time.Now() gave the first call (0 before the call)
    atOther            \* the year time.Now() gave the second call (0 before the call)

tables == <<applicants, household_members, schemes, benefits, applications>>
serviceVars == <<applicants, household_members, schemes, benefits, applications,
                 nextApplicationID, clock, requests>>
eligVars == <<argApplicant, argScheme, nowYear, called, ret,
              otherApplicant, calledOther, retOther, at, atOther>>
vars == <<applicants, household_members, schemes, benefits, applications,
          nextApplicationID, clock, requests, eligVars>>

(***************************************************************************)
(* Input values.                                                           *)
(***************************************************************************)
ApplicantEmploymentValues == {S_employed, S_unemployed, S_UNEMPLOYED}
ApplicantMaritalValues == {S_single, S_married}
CriteriaEmploymentValues == {EmptyString, S_unemployed, S_Unemployed}
CriteriaMaritalValues == {EmptyString, S_single, S_Married}
SchoolLevelValues == {EmptyString, S_primary, S_Primary, S_secondary}
RelationValues == {S_daughter, S_Daughter, S_StepSon, S_SON, S_spouse}
\* The years at whose end the service is followed into the next year.
NewYearEves == {2025, 2030}
\* With ClockYears these give year differences 5, 6, 12 and 13.
ClockYears == {2025, 2026}
BirthYears == {2013, 2020}

\* What PUT /api/applicants/{id} and PUT /api/schemes/{id} bodies carry.  The
\* ENUM columns of applicants store the lower-case member names.
UpdateEmploymentValues == {S_employed, S_unemployed}
UpdateMaritalValues == {S_married}
SchemeNames == {"Retrenchment Assistance Scheme"}
\* The names PUT /api/schemes/{id} bodies carry where the listing order is
\* examined: one equal to a sample name, one sorting after both sample names.
ListSchemeNames == {"Retrenchment Assistance Scheme", "Workfare Scheme"}
\* The status of a PUT /api/applications/{id} body; empty when the key is left out.
UpdateStatusValues == {EmptyString, S_approved}
\* The status strings callers hand to the application repository and to PUT
\* /api/applications/{id} where statuses are examined: none, each member of
\* the ENUM, and a string the ENUM does not hold.
AnyStatusValues == {EmptyString, S_pending, S_approved, S_rejected, S_cancelled}
UpdateCriteriaValues ==
    {[EmploymentStatus |-> S_Unemployed, MaritalStatus |-> S_Married,
      HasChildren |-> [SchoolLevel |-> EmptyString]]}

HouseholdMembers == [Relation : RelationValues, DateOfBirth : BirthYears]

RECURSIVE SeqsUpTo(_, _)
SeqsUpTo(S, n) ==
    IF n = 0 THEN {<< >>}
    ELSE LET shorter == SeqsUpTo(S, n - 1)
         IN  shorter \cup {Append(q, x) : q \in {r \in shorter : Len(r) = n - 1}, x \in S}

Households == SeqsUpTo(HouseholdMembers, MaxHousehold)

(***************************************************************************)
(* The database: identifiers and the rows of schema.sql's sample data.     *)
(***************************************************************************)
\* Bound: how many applications are ever inserted in one behaviour.
MaxApplications == 1
\* The longest household of the applicants compared pairwise.
MaxPairHousehold == 1

\* 'James' and 'Mary' of the sample data stand for their UUIDs.
ApplicantIDs == {"james", "mary"}
\* 'Retrenchment Assistance Scheme' and '... (families)'.
SchemeIDs == {"ras", "rasf"}
\* The empty string of a request that leaves an identifier out.
NoID == ""
\* The connections Spec serves at a time; the handlers taken in one step
\* stand for any number of further connections.
Connections == {"c1"}

\* A nil pointer or SQL NULL, and a loaded value.
Nil == << >>
Some(x) == <<x>>

\* ORDER BY name ASC on household_members, for the names the model uses.
MemberNameOrder == <<"Ann", "Gwen", "Jayden">>
MemberNameRank(name) == CHOOSE i \in 1..Len(MemberNameOrder) : MemberNameOrder[i] = name

\* ORDER BY name ASC on schemes, for the names the model uses.
SchemeNameOrder ==
    <<"Retrenchment Assistance Scheme", "Retrenchment Assistance Scheme (families)",
      "Workfare Scheme">>
SchemeNameRank(name) == CHOOSE i \in 1..Len(SchemeNameOrder) : SchemeNameOrder[i] = name

\* schema.sql: status ENUM('pending', 'approved', 'rejected') NOT NULL
StatusEnum == {S_pending, S_approved, S_rejected}

\* (mutant) the status column takes any string
EnumStatusUnchecked(value) == Some(value)

\* What the status column stores for a value written to it: the member, or
\* Nil when the statement fails because the ENUM does not hold the value
\* (strict SQL mode, the default of the MySQL 8.0 the README requires).
EnumStatus(value) == IF value \in StatusEnum THEN Some(value) ELSE Nil

\* encoding/json on models.Criteria.  A stored criteria document gives each
\* key either Nil (the key is not in the JSON text) or Some(value).
UnmarshalCriteria(doc) ==
    [EmploymentStatus |->
        IF doc.employment_status # Nil THEN doc.employment_status[1] ELSE EmptyString,
     MaritalStatus |->
        IF doc.marital_status # Nil THEN doc.marital_status[1] ELSE EmptyString,
     HasChildren |->
        [SchoolLevel |->
            IF doc.has_children # Nil /\ doc.has_children[1].school_level # Nil
            THEN doc.has_children[1].school_level[1] ELSE EmptyString]]

\* json.Marshal: omitempty drops an empty string, never the has_children struct.
MarshalCriteria(criteria) ==
    [employment_status |->
        IF criteria.EmploymentStatus # EmptyString
        THEN Some(criteria.EmploymentStatus) ELSE Nil,
     marital_status |->
        IF criteria.MaritalStatus # EmptyString
        THEN Some(criteria.MaritalStatus) ELSE Nil,
     has_children |->
        Some([school_level |->
                IF criteria.HasChildren.SchoolLevel # EmptyString
                THEN Some(criteria.HasChildren.SchoolLevel) ELSE Nil])]

\* schema.sql: sample applicants, household members, schemes and benefits;
\* no sample application.
SampleApplicants ==
    [id \in ApplicantIDs |->
        IF id = "james"
        THEN [EmploymentStatus |-> S_unemployed, MaritalStatus |-> S_single]
        ELSE [EmploymentStatus |-> S_unemployed, MaritalStatus |-> S_married]]

SampleHouseholdMembers ==
    {[ApplicantID |-> "mary", Name |-> "Gwen", Relation |-> S_daughter, DateOfBirth |-> 2016],
     [ApplicantID |-> "mary", Name |-> "Jayden", Relation |-> S_son, DateOfBirth |-> 2018]}

SampleSchemes ==
    [id \in SchemeIDs |->
        IF id = "ras"
        THEN [Name |-> "Retrenchment Assistance Scheme",
              criteria |-> [employment_status |-> Some(S_unemployed),
                            marital_status |-> Nil,
                            has_children |-> Nil]]
        ELSE [Name |-> "Retrenchment Assistance Scheme (families)",
              criteria |-> [employment_status |-> Some(S_unemployed),
                            marital_status |-> Nil,
                            has_children |-> Some([school_level |-> Some(S_primary)])]]]

\* The schemes table after PUT /api/schemes/{id} gave the second sample
\* scheme the name of the first.
RenamedSchemes ==
    [SampleSchemes EXCEPT !["rasf"] =
        [Name |-> SampleSchemes["ras"].Name,
         criteria |-> MarshalCriteria(
             [EmploymentStatus |-> S_Unemployed, MaritalStatus |-> S_Married,
              HasChildren |-> [SchoolLevel |-> EmptyString]])]]

SampleBenefits ==
    {[SchemeID |-> "ras", Name |-> "SkillsFuture Credits"],
     [SchemeID |-> "rasf", Name |-> "School Meal Vouchers"]}

(***************************************************************************)
(* Repository reads.  Each is one step of the connection that calls it.    *)
(***************************************************************************)
\* The set of member rows as the sequence ORDER BY name ASC returns.
RECURSIVE MembersByName(_)
MembersByName(rows) ==
    IF rows = {} THEN << >>
    ELSE LET first == CHOOSE r \in rows :
                          \A o \in rows : MemberNameRank(r.Name) <= MemberNameRank(o.Name)
         IN  <<[Relation |-> first.Relation, DateOfBirth |-> first.DateOfBirth]>>
                 \o MembersByName(rows \ {first})

\* ApplicantRepository.GetHouseholdMembers
GetHouseholdMembers(applicantID) ==
    MembersByName({r \in household_members : r.ApplicantID = applicantID})

\* ApplicantRepository.GetByID: nil when no row; the row with its household
ApplicantGetByID(id) ==
    IF id \notin DOMAIN applicants THEN Nil
    ELSE Some([EmploymentStatus |-> applicants[id].EmploymentStatus,
               MaritalStatus |-> applicants[id].MaritalStatus,
               Household |-> GetHouseholdMembers(id)])

\* SchemeRepository.GetByID: nil when no row; the row with its criteria decoded
SchemeGetByID(id) ==
    IF id \notin DOMAIN schemes THEN Nil
    ELSE Some([Name |-> schemes[id].Name,
               Criteria |-> UnmarshalCriteria(schemes[id].criteria)])

\* One row of the schemes table as GetAll and GetByID scan it.
SchemeRow(id) ==
    [ID |-> id, Name |-> schemes[id].Name,
     Criteria |-> UnmarshalCriteria(schemes[id].criteria)]

\* The orders in which a SELECT may return the rows of schemes.
SchemeOrders ==
    LET n == Cardinality(DOMAIN schemes)
    IN  {ids \in [1..n -> DOMAIN schemes] :
            \A i, j \in 1..n : i # j => ids[i] # ids[j]}

\* (mutant) GetAll without ORDER BY
GetAllUnordered ==
    {[i \in 1..Len(ids) |-> SchemeRow(ids[i])] : ids \in SchemeOrders}

\* SchemeRepository.GetAll: every row, ORDER BY name ASC.  SQL leaves the
\* order of rows with equal names to the server.
GetAll ==
    {[i \in 1..Len(ids) |-> SchemeRow(ids[i])] :
        ids \in {o \in SchemeOrders :
                    \A i, j \in 1..Len(o) :
                        i < j => SchemeNameRank(schemes[o[i]].Name)
                                     <= SchemeNameRank(schemes[o[j]].Name)}}

\* (mutant) the loop of GetEligibleSchemes appends every scheme
RECURSIVE AppendAllSchemes(_, _, _, _)
AppendAllSchemes(applicant, listing, i, year) ==
    IF i > Len(listing) THEN << >>
    ELSE <<listing[i]>> \o AppendAllSchemes(applicant, listing, i + 1, year)

\* scheme_repository.go:258-264: the loop over the listing, from index i on
RECURSIVE eligibleSchemes(_, _, _, _)
eligibleSchemes(applicant, listing, i, year) ==
    IF i > Len(listing) THEN << >>
    ELSE (IF isEligible(applicant, listing[i], year) THEN <<listing[i]>> ELSE << >>)
             \o eligibleSchemes(applicant, listing, i + 1, year)

(***************************************************************************)
(* HTTP requests.  A connection serves one request at a time; a request    *)
(* advances one SQL statement (with the Go code around it) per step.       *)
(* In Spec every statement the store accepts succeeds.                     *)
(***************************************************************************)
Idle ==
    [op |-> "idle", pc |-> "idle", ApplicantID |-> NoID, SchemeID |-> NoID,
     Status |-> EmptyString,
     applicant |-> Nil, scheme |-> Nil, schemes |-> << >>, result |-> << >>,
     previous |-> Nil, year |-> 0, ID |-> 0, status |-> 0, err |-> "none",
     Household |-> << >>, i |-> 0]

\* http.Error(w, ..., code) or the success response: the request is over.
\* A direct call of ApplicationRepository.Create returns err and no HTTP code.
Respond(req, code, err) ==
    [Idle EXCEPT !.op = req.op, !.pc = "done", !.ApplicantID = req.ApplicantID,
                 !.SchemeID = req.SchemeID, !.ID = req.ID, !.previous = req.previous,
                 !.status = IF req.op = "Create" THEN 0 ELSE code, !.err = err]

Free(p) == requests[p].pc \in {"idle", "done"}

\* POST /api/applications arrives: application_handler.go:127-143
ReceiveCreateApplication(p, applicantID, schemeID) ==
    /\ Free(p)
    /\ LET req == [Idle EXCEPT !.op = "CreateApplication", !.pc = "h_applicant",
                               !.ApplicantID = applicantID, !.SchemeID = schemeID]
       IN  requests' = [requests EXCEPT ![p] =
               IF applicantID = NoID \/ schemeID = NoID
               THEN Respond(req, 400, "BadRequest")
               ELSE req]
    /\ UNCHANGED <<tables, nextApplicationID, clock, eligVars>>

\* application_handler.go:145-154
HandlerGetApplicant(p) ==
    /\ requests[p].op = "CreateApplication" /\ requests[p].pc = "h_applicant"
    /\ LET applicant == ApplicantGetByID(requests[p].ApplicantID)
       IN  requests' = [requests EXCEPT ![p] =
               IF applicant = Nil
               THEN Respond(@, 404, "NotFound")
               ELSE [@ EXCEPT !.pc = "h_scheme"]]
    /\ UNCHANGED <<tables, nextApplicationID, clock, eligVars>>

\* (mutant) the handler does not test scheme == nil
HandlerGetSchemeNoNilCheck(p) ==
    /\ requests[p].op = "CreateApplication" /\ requests[p].pc = "h_scheme"
    /\ requests' = [requests EXCEPT ![p] =
           [@ EXCEPT !.pc = "r_applicant", !.Status = S_pending]]
    /\ UNCHANGED <<tables, nextApplicationID, clock, eligVars>>

\* application_handler.go:156-173: the lookup, then the Application value
\* (Status "pending") the handler passes to Create
HandlerGetScheme(p) ==
    /\ requests[p].op = "CreateApplication" /\ requests[p].pc = "h_scheme"
    /\ LET scheme == SchemeGetByID(requests[p].SchemeID)
       IN  requests' = [requests EXCEPT ![p] =
               IF scheme = Nil
               THEN Respond(@, 404, "NotFound")
               ELSE [@ EXCEPT !.pc = "r_applicant", !.Status = S_pending]]
    /\ UNCHANGED <<tables, nextApplicationID, clock, eligVars>>

\* ApplicationRepository.Create(a) called by code other than the handler,
\* with the status field its caller chose.
CallCreate(p, applicantID, schemeID, status) ==
    /\ Free(p)
    /\ requests' = [requests EXCEPT ![p] =
           [Idle EXCEPT !.op = "Create", !.pc = "r_applicant",
                        !.ApplicantID = applicantID, !.SchemeID = schemeID,
                        !.Status = status]]
    /\ UNCHANGED <<tables, nextApplicationID, clock, eligVars>>

\* Connection p runs ApplicationRepository.Create, for the handler or for a
\* direct caller.
InCreate(p) == requests[p].op \in {"CreateApplication", "Create"}

\* application_handler.go:175-180 calling ApplicationRepository.Create,
\* application_repository.go:173-180
RepoGetApplicant(p) ==
    /\ InCreate(p) /\ requests[p].pc = "r_applicant"
    /\ LET applicant == ApplicantGetByID(requests[p].ApplicantID)
       IN  requests' = [requests EXCEPT ![p] =
               IF applicant = Nil
               THEN Respond(@, 500, "NotFound")
               ELSE [@ EXCEPT !.pc = "r_scheme", !.applicant = applicant]]
    /\ UNCHANGED <<tables, nextApplicationID, clock, eligVars>>

\* application_repository.go:182-188
RepoGetScheme(p) ==
    /\ InCreate(p) /\ requests[p].pc = "r_scheme"
    /\ LET scheme == SchemeGetByID(requests[p].SchemeID)
       IN  requests' = [requests EXCEPT ![p] =
               IF scheme = Nil
               THEN Respond(@, 500, "NotFound")
               ELSE [@ EXCEPT !.pc = "r_insert", !.scheme = scheme]]
    /\ UNCHANGED <<tables, nextApplicationID, clock, eligVars>>

\* (mutant) Create stores "pending" whatever status it was handed
NewApplicationRowAlwaysPending(req, status) ==
    [ApplicantID |-> req.ApplicantID, SchemeID |-> req.SchemeID,
     Status |-> S_pending,
     ApplicationDate |-> clock, DecisionDate |-> Nil]

\* The row INSERT INTO applications writes (application_repository.go:195-214)
\* for the Application the handler built (application_handler.go:168-173).
\* decision_date is not in the column list: NULL.
NewApplicationRow(req, status) ==
    [ApplicantID |-> req.ApplicantID, SchemeID |-> req.SchemeID,
     Status |-> IF status = EmptyString THEN S_pending ELSE status,
     ApplicationDate |-> clock, DecisionDate |-> Nil]

\* (mutant) the eligibility gate of Create always passes
GatePassesAlways(applicant, scheme, year) == TRUE

\* application_repository.go:190-193, the condition under which Create goes on
GatePasses(applicant, scheme, year) == isEligible(applicant, scheme, year)

\* (mutant) an ineligible applicant is reported as not found
IneligibleErrorAsNotFound == "NotFound"

\* application_repository.go:192 "applicant is not eligible for this scheme"
IneligibleError == "Ineligible"

\* (mutant) Create evaluates the gate on the rows as they are stored at the
\* INSERT, in one transaction with it
RepoInsertRechecking(p) ==
    /\ InCreate(p) /\ requests[p].pc = "r_insert"
    /\ LET req == requests[p]
           row == NewApplicationRow(req, req.Status)
           applicant == ApplicantGetByID(req.ApplicantID)
           scheme == SchemeGetByID(req.SchemeID)
       IN  IF applicant = Nil \/ scheme = Nil
           THEN /\ requests' = [requests EXCEPT ![p] = Respond(req, 500, "NotFound")]
                /\ UNCHANGED <<applications, nextApplicationID>>
           ELSE IF ~ GatePasses(applicant[1], scheme[1], clock)
           THEN /\ requests' = [requests EXCEPT ![p] = Respond(req, 500, IneligibleError)]
                /\ UNCHANGED <<applications, nextApplicationID>>
           ELSE /\ nextApplicationID <= MaxApplications
                /\ applications' =
                       [id \in DOMAIN applications \cup {nextApplicationID} |->
                           IF id = nextApplicationID THEN row ELSE applications[id]]
                /\ nextApplicationID' = nextApplicationID + 1
                /\ requests' = [requests EXCEPT ![p] =
                       IF req.op = "CreateApplication"
                       THEN [req EXCEPT !.pc = "h_readback", !.ID = nextApplicationID]
                       ELSE Respond([req EXCEPT !.ID = nextApplicationID], 0, "none")]
    /\ UNCHANGED <<applicants, household_members, schemes, benefits, clock, eligVars>>

\* (mutant) Create refuses a second application for the same applicant and scheme
RepoInsertUnique(p) ==
    /\ InCreate(p) /\ requests[p].pc = "r_insert"
    /\ LET req == requests[p]
           row == NewApplicationRow(req, req.Status)
       IN  IF ~ GatePasses(req.applicant[1], req.scheme[1], clock)
           THEN /\ requests' = [requests EXCEPT ![p] = Respond(req, 500, IneligibleError)]
                /\ UNCHANGED <<applications, nextApplicationID>>
           ELSE IF \E id \in DOMAIN applications :
                       /\ applications[id].ApplicantID = req.ApplicantID
                       /\ applications[id].SchemeID = req.SchemeID
           THEN /\ requests' = [requests EXCEPT ![p] = Respond(req, 500, "Duplicate")]
                /\ UNCHANGED <<applications, nextApplicationID>>
           ELSE /\ nextApplicationID <= MaxApplications
                /\ applications' =
                       [id \in DOMAIN applications \cup {nextApplicationID} |->
                           IF id = nextApplicationID THEN row ELSE applications[id]]
                /\ nextApplicationID' = nextApplicationID + 1
                /\ requests' = [requests EXCEPT ![p] =
                       IF req.op = "CreateApplication"
                       THEN [req EXCEPT !.pc = "h_readback", !.ID = nextApplicationID]
                       ELSE Respond([req EXCEPT !.ID = nextApplicationID], 0, "none")]
    /\ UNCHANGED <<applicants, household_members, schemes, benefits, clock, eligVars>>

\* application_repository.go:190-221: the gate, the default status, then the
\* INSERT.  The ENUM of status rejects a string it does not hold and the
\* foreign keys of applications (schema.sql) reject a row whose applicant or
\* scheme is gone.  The handler goes on to read the row back; a direct call
\* returns nil.
RepoInsert(p) ==
    /\ InCreate(p) /\ requests[p].pc = "r_insert"
    /\ LET req == requests[p]
           row == NewApplicationRow(req, req.Status)
       IN  IF ~ GatePasses(req.applicant[1], req.scheme[1], clock)
           THEN /\ requests' = [requests EXCEPT ![p] = Respond(req, 500, IneligibleError)]
                /\ UNCHANGED <<applications, nextApplicationID>>
           ELSE IF EnumStatus(row.Status) = Nil
           THEN /\ requests' = [requests EXCEPT ![p] = Respond(req, 500, "DataTruncated")]
                /\ UNCHANGED <<applications, nextApplicationID>>
           ELSE IF req.ApplicantID \notin DOMAIN applicants
                   \/ req.SchemeID \notin DOMAIN schemes
           THEN /\ requests' = [requests EXCEPT ![p] = Respond(req, 500, "ForeignKey")]
                /\ UNCHANGED <<applications, nextApplicationID>>
           ELSE /\ nextApplicationID <= MaxApplications
                /\ applications' =
                       [id \in DOMAIN applications \cup {nextApplicationID} |->
                           IF id = nextApplicationID
                           THEN [row EXCEPT !.Status = EnumStatus(row.Status)[1]]
                           ELSE applications[id]]
                /\ nextApplicationID' = nextApplicationID + 1
                /\ requests' = [requests EXCEPT ![p] =
                       IF req.op = "CreateApplication"
                       THEN [req EXCEPT !.pc = "h_readback", !.ID = nextApplicationID]
                       ELSE Respond([req EXCEPT !.ID = nextApplicationID], 0, "none")]
    /\ UNCHANGED <<applicants, household_members, schemes, benefits, clock, eligVars>>

\* application_handler.go:182-203: ApplicationRepository.GetByID of the new
\* row and the 201 response.  With the row gone createdApp is nil and line 190
\* dereferences it; net/http recovers the panic and the client gets no response.
HandlerReadBack(p) ==
    /\ requests[p].op = "CreateApplication" /\ requests[p].pc = "h_readback"
    /\ requests' = [requests EXCEPT ![p] =
           IF requests[p].ID \in DOMAIN applications
           THEN Respond(@, 201, "none")
           ELSE Respond(@, 0, "panic")]
    /\ UNCHANGED <<tables, nextApplicationID, clock, eligVars>>

(***************************************************************************)
(* GET /api/schemes/eligible?applicant=ID, one SQL statement per step.     *)
(***************************************************************************)
\* scheme_handler.go:102-107
ReceiveGetEligibleSchemes(p, applicantID) ==
    /\ Free(p)
    /\ LET req == [Idle EXCEPT !.op = "GetEligibleSchemes", !.pc = "l_applicant",
                               !.ApplicantID = applicantID]
       IN  requests' = [requests EXCEPT ![p] =
               IF applicantID = NoID THEN Respond(req, 400, "BadRequest") ELSE req]
    /\ UNCHANGED <<tables, nextApplicationID, clock, eligVars>>

\* The client that received a 200 listing sends the same request again and
\* keeps the schemes it was given, with the year they were computed in
\* (previous), to compare.
RepeatGetEligibleSchemes(p) ==
    /\ requests[p].op = "GetEligibleSchemes"
    /\ requests[p].pc = "done" /\ requests[p].status = 200
    /\ requests' = [requests EXCEPT ![p] =
           [Idle EXCEPT !.op = "GetEligibleSchemes", !.pc = "l_applicant",
                        !.ApplicantID = requests[p].ApplicantID,
                        !.previous = Some([result |-> requests[p].result,
                                           year |-> requests[p].year])]]
    /\ UNCHANGED <<tables, nextApplicationID, clock, eligVars>>

\* (mutant) the handler does not test applicant == nil
ListHandlerGetApplicantNoNilCheck(p) ==
    /\ requests[p].op = "GetEligibleSchemes" /\ requests[p].pc = "l_applicant"
    /\ requests' = [requests EXCEPT ![p] = [@ EXCEPT !.pc = "l_load"]]
    /\ UNCHANGED <<tables, nextApplicationID, clock, eligVars>>

\* scheme_handler.go:109-118
ListHandlerGetApplicant(p) ==
    /\ requests[p].op = "GetEligibleSchemes" /\ requests[p].pc = "l_applicant"
    /\ requests' = [requests EXCEPT ![p] =
           IF ApplicantGetByID(requests[p].ApplicantID) = Nil
           THEN Respond(@, 404, "NotFound")
           ELSE [@ EXCEPT !.pc = "l_load"]]
    /\ UNCHANGED <<tables, nextApplicationID, clock, eligVars>>

\* (mutant) a missing applicant at the repository's load is answered 404
ListRepoGetApplicantAsNotFound(p) ==
    /\ requests[p].op = "GetEligibleSchemes" /\ requests[p].pc = "l_load"
    /\ LET applicant == ApplicantGetByID(requests[p].ApplicantID)
       IN  requests' = [requests EXCEPT ![p] =
               IF applicant = Nil
               THEN Respond(@, 404, "NotFound")
               ELSE [@ EXCEPT !.pc = "l_schemes", !.applicant = applicant]]
    /\ UNCHANGED <<tables, nextApplicationID, clock, eligVars>>

\* scheme_handler.go:120-125 calling SchemeRepository.GetEligibleSchemes,
\* scheme_repository.go:244-251
ListRepoGetApplicant(p) ==
    /\ requests[p].op = "GetEligibleSchemes" /\ requests[p].pc = "l_load"
    /\ LET applicant == ApplicantGetByID(requests[p].ApplicantID)
       IN  requests' = [requests EXCEPT ![p] =
               IF applicant = Nil
               THEN Respond(@, 500, "NotFound")
               ELSE [@ EXCEPT !.pc = "l_schemes", !.applicant = applicant]]
    /\ UNCHANGED <<tables, nextApplicationID, clock, eligVars>>

\* scheme_repository.go:253-257: r.GetAll()
ListGetAll(p) ==
    /\ requests[p].op = "GetEligibleSchemes" /\ requests[p].pc = "l_schemes"
    /\ \E listing \in GetAll :
           requests' = [requests EXCEPT ![p] =
               [@ EXCEPT !.pc = "l_filter", !.schemes = listing]]
    /\ UNCHANGED <<tables, nextApplicationID, clock, eligVars>>

\* (mutant) the listing also files an application for the first eligible scheme
ListFilterAutoApply(p) ==
    /\ requests[p].op = "GetEligibleSchemes" /\ requests[p].pc = "l_filter"
    /\ LET req == requests[p]
           found == eligibleSchemes(req.applicant[1], req.schemes, 1, clock)
       IN  /\ requests' = [requests EXCEPT ![p] =
                  [Respond(req, 200, "none") EXCEPT !.result = found, !.year = clock]]
           /\ applications' =
                  IF found = << >> THEN applications
                  ELSE [id \in DOMAIN applications \cup {nextApplicationID} |->
                           IF id = nextApplicationID
                           THEN [ApplicantID |-> req.ApplicantID, SchemeID |-> found[1].ID,
                                 Status |-> S_pending, ApplicationDate |-> clock,
                                 DecisionDate |-> Nil]
                           ELSE applications[id]]
    /\ UNCHANGED <<applicants, household_members, schemes, benefits,
                   nextApplicationID, clock, eligVars>>

\* scheme_repository.go:259-266 and the 200 response, scheme_handler.go:127-142
ListFilter(p) ==
    /\ requests[p].op = "GetEligibleSchemes" /\ requests[p].pc = "l_filter"
    /\ LET req == requests[p]
       IN  requests' = [requests EXCEPT ![p] =
               [Respond(req, 200, "none") EXCEPT
                   !.result = eligibleSchemes(req.applicant[1], req.schemes, 1, clock),
                   !.year = clock]]
    /\ UNCHANGED <<tables, nextApplicationID, clock, eligVars>>

(***************************************************************************)
(* POST /api/applicants.  ApplicantRepository.Create runs one INSERT for   *)
(* the applicant and one for each household member, each committed on its  *)
(* own: no transaction is opened.                                          *)
(***************************************************************************)
\* The identifier the body of POST /api/applicants gives its applicant.
NewApplicantID == "noah"

\* The household the body submits: a spouse and a son of primary-school age.
NewHousehold ==
    <<[Name |-> "Ann", Relation |-> S_spouse, DateOfBirth |-> 1990],
      [Name |-> "Jayden", Relation |-> S_son, DateOfBirth |-> 2018]>>

\* applicant_handler.go:71-113: the body decoded, Create called
ReceiveCreateApplicant(p) ==
    /\ Free(p)
    /\ requests' = [requests EXCEPT ![p] =
           [Idle EXCEPT !.op = "CreateApplicant", !.pc = "a_insert",
                        !.ApplicantID = NewApplicantID, !.Household = NewHousehold]]
    /\ UNCHANGED <<tables, nextApplicationID, clock, eligVars>>

\* applicant_repository.go:96-104: INSERT INTO applicants; the primary key
\* refuses an identifier that is stored
CreateApplicantRow(p) ==
    /\ requests[p].op = "CreateApplicant" /\ requests[p].pc = "a_insert"
    /\ LET req == requests[p]
       IN  IF req.ApplicantID \in DOMAIN applicants
           THEN /\ requests' = [requests EXCEPT ![p] = Respond(req, 500, "Duplicate")]
                /\ UNCHANGED applicants
           ELSE /\ applicants' =
                       [id \in DOMAIN applicants \cup {req.ApplicantID} |->
                           IF id = req.ApplicantID
                           THEN [EmploymentStatus |-> S_unemployed,
                                 MaritalStatus |-> S_married]
                           ELSE applicants[id]]
                /\ requests' = [requests EXCEPT ![p] =
                       [req EXCEPT !.pc = "a_members", !.i = 1]]
    /\ UNCHANGED <<household_members, schemes, benefits, applications,
                   nextApplicationID, clock, eligVars>>

\* applicant_repository.go:107-114: one turn of the loop, CreateHouseholdMember
\* of member i (177-198), or the return after the last member; the foreign
\* key of household_members refuses a member whose applicant is gone
CreateHouseholdMember(p) ==
    /\ requests[p].op = "CreateApplicant" /\ requests[p].pc = "a_members"
    /\ LET req == requests[p]
       IN  IF req.i > Len(req.Household)
           THEN /\ requests' = [requests EXCEPT ![p] =
                       [Respond(req, 201, "none") EXCEPT !.Household = req.Household]]
                /\ UNCHANGED household_members
           ELSE IF req.ApplicantID \notin DOMAIN applicants
           THEN /\ requests' = [requests EXCEPT ![p] = Respond(req, 500, "ForeignKey")]
                /\ UNCHANGED household_members
           ELSE /\ household_members' = household_members \cup
                       {[ApplicantID |-> req.ApplicantID,
                         Name |-> req.Household[req.i].Name,
                         Relation |-> req.Household[req.i].Relation,
                         DateOfBirth |-> req.Household[req.i].DateOfBirth]}
                /\ requests' = [requests EXCEPT ![p] = [req EXCEPT !.i = req.i + 1]]
    /\ UNCHANGED <<applicants, schemes, benefits, applications,
                   nextApplicationID, clock, eligVars>>

(***************************************************************************)
(* Store reads that fail.  database/sql hands the error of a failed        *)
(* statement to the repository, which wraps it and returns it.             *)
(***************************************************************************)
\* The errors of ApplicantRepository.GetByID (applicant_repository.go:68-79),
\* SchemeRepository.GetByID (scheme_repository.go:79-95) and
\* SchemeRepository.GetAll (scheme_repository.go:29-62).
StoreReadErrors(pc) ==
    CASE pc \in {"h_applicant", "r_applicant", "l_applicant", "l_load"} ->
             {"error querying applicant", "error getting household members"}
      [] pc \in {"h_scheme", "r_scheme"} ->
             {"error querying scheme", "error unmarshaling criteria",
              "error getting benefits"}
      [] pc = "l_schemes" ->
             {"error querying schemes", "error unmarshaling criteria",
              "error getting benefits"}
      [] OTHER -> {}

\* (mutant) the statement that failed is run again
ReadFailsRetried(p, what) ==
    /\ what \in StoreReadErrors(requests[p].pc)
    /\ requests' = [requests EXCEPT ![p] = [@ EXCEPT !.err = what]]
    /\ UNCHANGED <<tables, nextApplicationID, clock, eligVars>>

\* The read connection p is about to make fails with error what: the
\* repository returns it (application_repository.go:174-177, 182-185,
\* scheme_repository.go:246-248, 255-257) and the handler answers 500
\* (application_handler.go:147-150, 158-161, 177-180, scheme_handler.go:
\* 111-114, 122-125).
ReadFails(p, what) ==
    /\ what \in StoreReadErrors(requests[p].pc)
    /\ requests' = [requests EXCEPT ![p] = Respond(@, 500, what)]
    /\ UNCHANGED <<tables, nextApplicationID, clock, eligVars>>

\* application_handler.go:183-187: the read of the row Create inserted
\* fails; the row stays.
ReadBackFails(p) ==
    /\ requests[p].op = "CreateApplication" /\ requests[p].pc = "h_readback"
    /\ requests' = [requests EXCEPT ![p] =
           Respond(@, 500, "error querying application")]
    /\ UNCHANGED <<tables, nextApplicationID, clock, eligVars>>

(***************************************************************************)
(* The other handlers that write.  Each takes its existence check and its  *)
(* statement in one step: a delete between the two leaves the statement    *)
(* touching no row, the tables as the delete left them.                    *)
(***************************************************************************)
\* PUT /api/applicants/{id}: applicant_handler.go:130-186, ApplicantRepository.Update
UpdateApplicant(id, employmentStatus, maritalStatus) ==
    /\ id \in DOMAIN applicants
    /\ applicants' = [applicants EXCEPT ![id] =
           [EmploymentStatus |-> employmentStatus, MaritalStatus |-> maritalStatus]]
    /\ UNCHANGED <<household_members, schemes, benefits, applications,
                   nextApplicationID, clock, requests, eligVars>>

\* (mutant) the DELETE goes through while applications name the applicant
DeleteApplicantUnchecked(id) ==
    /\ id \in DOMAIN applicants
    /\ applicants' = [x \in DOMAIN applicants \ {id} |-> applicants[x]]
    /\ household_members' = {r \in household_members : r.ApplicantID # id}
    /\ UNCHANGED <<schemes, benefits, applications,
                   nextApplicationID, clock, requests, eligVars>>

\* DELETE /api/applicants/{id}: applicant_handler.go:189-211.  The foreign key
\* of applications has no ON DELETE rule: the DELETE fails while an application
\* names the applicant; household_members rows go with the applicant (CASCADE).
DeleteApplicant(id) ==
    /\ id \in DOMAIN applicants
    /\ \A a \in DOMAIN applications : applications[a].ApplicantID # id
    /\ applicants' = [x \in DOMAIN applicants \ {id} |-> applicants[x]]
    /\ household_members' = {r \in household_members : r.ApplicantID # id}
    /\ UNCHANGED <<schemes, benefits, applications,
                   nextApplicationID, clock, requests, eligVars>>

\* PUT /api/schemes/{id}: scheme_handler.go:203-254, SchemeRepository.Update
UpdateScheme(id, name, criteria) ==
    /\ id \in DOMAIN schemes
    /\ schemes' = [schemes EXCEPT ![id] =
           [Name |-> name, criteria |-> MarshalCriteria(criteria)]]
    /\ UNCHANGED <<applicants, household_members, benefits, applications,
                   nextApplicationID, clock, requests, eligVars>>

\* DELETE /api/schemes/{id}: scheme_handler.go:267-289; benefits rows CASCADE.
DeleteScheme(id) ==
    /\ id \in DOMAIN schemes
    /\ \A a \in DOMAIN applications : applications[a].SchemeID # id
    /\ schemes' = [x \in DOMAIN schemes \ {id} |-> schemes[x]]
    /\ benefits' = {r \in benefits : r.SchemeID # id}
    /\ UNCHANGED <<applicants, household_members, applications,
                   nextApplicationID, clock, requests, eligVars>>

\* (mutant) PUT refuses a new status while the applicant does not satisfy
\* the scheme
UpdateApplicationGated(id, status) ==
    /\ id \in DOMAIN applications
    /\ LET existing == applications[id]
           updated == [existing EXCEPT !.Status =
                          IF status # EmptyString THEN status ELSE @]
           applicant == ApplicantGetByID(existing.ApplicantID)
           scheme == SchemeGetByID(existing.SchemeID)
       IN  applications' =
               IF \/ EnumStatus(updated.Status) = Nil
                  \/ ~ isEligible(applicant[1], scheme[1], clock)
               THEN applications
               ELSE [applications EXCEPT ![id] =
                        [@ EXCEPT !.Status = EnumStatus(updated.Status)[1],
                                  !.DecisionDate = updated.DecisionDate]]
    /\ UNCHANGED <<applicants, household_members, schemes, benefits,
                   nextApplicationID, clock, requests, eligVars>>

\* PUT /api/applications/{id}: application_handler.go:219-280 and
\* ApplicationRepository.Update.  The handler loads the row, replaces the
\* status when the body gives one, and Update writes status and the loaded
\* decision_date back WHERE id = ?; applicant_id and scheme_id are not in
\* the SET list.
UpdateApplication(id, status) ==
    /\ id \in DOMAIN applications
    /\ LET existing == applications[id]
           updated == [existing EXCEPT !.Status =
                          IF status # EmptyString THEN status ELSE @]
       IN  applications' =
               IF EnumStatus(updated.Status) = Nil
               THEN applications
               ELSE [applications EXCEPT ![id] =
                        [@ EXCEPT !.Status = EnumStatus(updated.Status)[1],
                                  !.DecisionDate = updated.DecisionDate]]
    /\ UNCHANGED <<applicants, household_members, schemes, benefits,
                   nextApplicationID, clock, requests, eligVars>>

\* (mutant) UpdateStatus leaves decision_date as it is
UpdateStatusKeepingDate(id, status) ==
    /\ id \in DOMAIN applications
    /\ applications' =
           IF EnumStatus(status) = Nil
           THEN applications
           ELSE [applications EXCEPT ![id] = [@ EXCEPT !.Status = EnumStatus(status)[1]]]
    /\ UNCHANGED <<applicants, household_members, schemes, benefits,
                   nextApplicationID, clock, requests, eligVars>>

\* (mutant) the UPDATE of UpdateStatus has no WHERE clause
UpdateStatusEveryRow(id, status) ==
    /\ id \in DOMAIN applications
    /\ LET decisionDate == IF status = S_approved \/ status = S_rejected
                           THEN Some(clock) ELSE Nil
       IN  applications' =
               IF EnumStatus(status) = Nil
               THEN applications
               ELSE [x \in DOMAIN applications |->
                        [applications[x] EXCEPT !.Status = EnumStatus(status)[1],
                                                !.DecisionDate = decisionDate]]
    /\ UNCHANGED <<applicants, household_members, schemes, benefits,
                   nextApplicationID, clock, requests, eligVars>>

\* ApplicationRepository.UpdateStatus(id, status), application_repository.go:
\* 246-268; no handler calls it.  decision_date becomes now for "approved"
\* and "rejected" and NULL otherwise.
UpdateStatus(id, status) ==
    /\ id \in DOMAIN applications
    /\ LET decisionDate == IF status = S_approved \/ status = S_rejected
                           THEN Some(clock) ELSE Nil
       IN  applications' =
               IF EnumStatus(status) = Nil
               THEN applications
               ELSE [applications EXCEPT ![id] =
                        [@ EXCEPT !.Status = EnumStatus(status)[1],
                                  !.DecisionDate = decisionDate]]
    /\ UNCHANGED <<applicants, household_members, schemes, benefits,
                   nextApplicationID, clock, requests, eligVars>>

\* DELETE /api/applications/{id}: application_handler.go:293-315
DeleteApplication(id) ==
    /\ id \in DOMAIN applications
    /\ applications' = [x \in DOMAIN applications \ {id} |-> applications[x]]
    /\ UNCHANGED <<applicants, household_members, schemes, benefits,
                   nextApplicationID, clock, requests, eligVars>>

\* The calendar year changes.
Tick ==
    /\ clock \in NewYearEves
    /\ clock' = clock + 1
    /\ UNCHANGED <<tables, nextApplicationID, requests, eligVars>>

(***************************************************************************)
(* Initial states.                                                         *)
(***************************************************************************)
\* The service after schema.sql was loaded and main() has started.
ServiceInit ==
    /\ applicants = SampleApplicants
    /\ household_members = SampleHouseholdMembers
    /\ schemes = SampleSchemes
    /\ benefits = SampleBenefits
    /\ applications = << >>
    /\ nextApplicationID = 1
    /\ clock = 2025
    /\ requests = [p \in Connections |-> Idle]

\* No call of isEligible is being examined.
EligIdle ==
    /\ argApplicant = [EmploymentStatus |-> EmptyString, MaritalStatus |-> EmptyString,
                       Household |-> << >>]
    /\ argScheme = [Criteria |-> UnmarshalCriteria(MarshalCriteria(
                       [EmploymentStatus |-> EmptyString, MaritalStatus |-> EmptyString,
                        HasChildren |-> [SchoolLevel |-> EmptyString]]))]
    /\ nowYear = 2025
    /\ called = FALSE
    /\ ret = FALSE
    /\ otherApplicant = argApplicant
    /\ calledOther = FALSE
    /\ retOther = FALSE
    /\ at = 0
    /\ atOther = 0

(***************************************************************************)
(* SpecElig: isEligible applied once to drawn arguments.                   *)
(***************************************************************************)
EligInit ==
    /\ argApplicant \in [EmploymentStatus : ApplicantEmploymentValues,
                         MaritalStatus : ApplicantMaritalValues,
                         Household : Households]
    /\ argScheme \in [Criteria : [EmploymentStatus : CriteriaEmploymentValues,
                                  MaritalStatus : CriteriaMaritalValues,
                                  HasChildren : [SchoolLevel : SchoolLevelValues]]]
    /\ nowYear \in ClockYears
    /\ called = FALSE
    /\ ret = FALSE
    /\ otherApplicant = argApplicant
    /\ calledOther = FALSE
    /\ retOther = FALSE
    /\ at = 0
    /\ atOther = 0
    /\ ServiceInit

\* (mutant) isEligible empties the household of the applicant it was handed
EvaluateDroppingHousehold ==
    /\ ~ called
    /\ called' = TRUE
    /\ ret' = isEligible(argApplicant, argScheme, nowYear)
    /\ at' = nowYear
    /\ argApplicant' = [argApplicant EXCEPT !.Household = << >>]
    /\ UNCHANGED <<argScheme, nowYear, serviceVars,
                   otherApplicant, calledOther, retOther, atOther>>

\* One call of isEligible(applicant, scheme).
Evaluate ==
    /\ ~ called
    /\ called' = TRUE
    /\ ret' = isEligible(argApplicant, argScheme, nowYear)
    /\ at' = nowYear
    /\ UNCHANGED <<argApplicant, argScheme, nowYear, serviceVars,
                   otherApplicant, calledOther, retOther, atOther>>

EligNext == Evaluate

SpecElig == EligInit /\ [][EligNext]_vars

(***************************************************************************)
(* SpecTwice: isEligible applied twice to the same drawn arguments, the    *)
(* calendar year free to change between the calls.                         *)
(***************************************************************************)
\* A second call of isEligible, on otherApplicant and the same scheme.
EvaluateOther ==
    /\ ~ calledOther
    /\ calledOther' = TRUE
    /\ retOther' = isEligible(otherApplicant, argScheme, nowYear)
    /\ atOther' = nowYear
    /\ UNCHANGED <<argApplicant, argScheme, nowYear, serviceVars,
                   otherApplicant, called, ret, at>>

\* time.Now().Year() moves on to the next year.
YearPasses ==
    /\ nowYear + 1 \in ClockYears
    /\ nowYear' = nowYear + 1
    /\ UNCHANGED <<argApplicant, argScheme, serviceVars,
                   otherApplicant, called, ret, calledOther, retOther, at, atOther>>

\* The arguments both calls are handed: any household, statuses and
\* criteria that meet or miss each clause.
TwiceInit ==
    /\ argApplicant \in [EmploymentStatus : {S_employed, S_unemployed},
                         MaritalStatus : {S_single},
                         Household : Households]
    /\ argScheme \in [Criteria : [EmploymentStatus : {EmptyString, S_unemployed},
                                  MaritalStatus : {EmptyString},
                                  HasChildren : [SchoolLevel : {EmptyString, S_primary}]]]
    /\ nowYear \in ClockYears
    /\ called = FALSE
    /\ ret = FALSE
    /\ otherApplicant = argApplicant
    /\ calledOther = FALSE
    /\ retOther = FALSE
    /\ at = 0
    /\ atOther = 0
    /\ ServiceInit

TwiceNext == Evaluate \/ EvaluateOther \/ YearPasses

SpecTwice == TwiceInit /\ [][TwiceNext]_vars

(***************************************************************************)
(* SpecPair: isEligible applied to two applicants that agree on            *)
(* employment status, marital status and each household member's relation  *)
(* and date of birth, and are free in sex, own date of birth and household  *)
(* members' employment status.                                             *)
(***************************************************************************)
\* models.go:23-33: the fields of a HouseholdMember that vary here
PairMembers ==
    [Relation : {S_daughter, S_spouse}, DateOfBirth : BirthYears,
     EmploymentStatus : {S_employed, S_unemployed}]

\* models.go:10-20: the fields of an Applicant that vary here
PairApplicants ==
    [EmploymentStatus : {S_employed, S_unemployed},
     MaritalStatus : {S_single},
     Sex : {S_male, S_female},
     DateOfBirth : BirthYears,
     Household : SeqsUpTo(PairMembers, MaxPairHousehold)]

\* a and b differ at most in sex, own date of birth and household members'
\* employment status.
SameButUnread(a, b) ==
    /\ a.EmploymentStatus = b.EmploymentStatus
    /\ a.MaritalStatus = b.MaritalStatus
    /\ Len(a.Household) = Len(b.Household)
    /\ \A k \in 1..Len(a.Household) :
           /\ a.Household[k].Relation = b.Household[k].Relation
           /\ a.Household[k].DateOfBirth = b.Household[k].DateOfBirth

PairInit ==
    /\ argApplicant \in PairApplicants
    /\ otherApplicant \in {b \in PairApplicants : SameButUnread(argApplicant, b)}
    /\ argScheme \in [Criteria : [EmploymentStatus : {EmptyString, S_unemployed},
                                  MaritalStatus : {EmptyString},
                                  HasChildren : [SchoolLevel : {EmptyString, S_primary}]]]
    /\ nowYear \in ClockYears
    /\ called = FALSE
    /\ ret = FALSE
    /\ calledOther = FALSE
    /\ retOther = FALSE
    /\ at = 0
    /\ atOther = 0
    /\ ServiceInit

PairNext == Evaluate \/ EvaluateOther

SpecPair == PairInit /\ [][PairNext]_vars

(***************************************************************************)
(* SpecKin: isEligible applied to an applicant whose last household member *)
(* is a grandson, a son-in-law or a person, and to the same applicant with *)
(* that member's relation replaced by "son".                               *)
(***************************************************************************)
KinRelations == {S_grandson, S_son_in_law, S_person, S_PERSON}
\* With ClockYears these give year differences 5, 6, 7, 11, 12 and 13.
KinBirthYears == {2013, 2014, 2019, 2020}

\* The applicant with the relation of the last household member replaced.
WithLastRelation(applicant, relation) ==
    [applicant EXCEPT !.Household[Len(applicant.Household)].Relation = relation]

KinInit ==
    /\ \E kin \in [Relation : KinRelations, DateOfBirth : KinBirthYears] :
           argApplicant \in
               [EmploymentStatus : {S_unemployed}, MaritalStatus : {S_single},
                Household : {<<kin>>,
                             <<[Relation |-> S_spouse, DateOfBirth |-> 2013], kin>>}]
    /\ otherApplicant = WithLastRelation(argApplicant, S_son)
    /\ argScheme \in [Criteria : [EmploymentStatus : {S_unemployed},
                                  MaritalStatus : {EmptyString},
                                  HasChildren : [SchoolLevel :
                                      {EmptyString, S_primary, S_Primary}]]]
    /\ nowYear \in ClockYears
    /\ called = FALSE
    /\ ret = FALSE
    /\ calledOther = FALSE
    /\ retOther = FALSE
    /\ at = 0
    /\ atOther = 0
    /\ ServiceInit

KinNext == Evaluate \/ EvaluateOther

SpecKin == KinInit /\ [][KinNext]_vars

(***************************************************************************)
(* SpecGrow: isEligible applied to an applicant and to the same applicant  *)
(* with one more household member, at any place of the household.          *)
(***************************************************************************)
\* The household with member put in front of its k-th member.
InsertAt(household, k, member) ==
    SubSeq(household, 1, k - 1) \o <<member>> \o SubSeq(household, k, Len(household))

GrowInit ==
    /\ argApplicant \in [EmploymentStatus : {S_employed, S_unemployed},
                         MaritalStatus : {S_single},
                         Household : SeqsUpTo(HouseholdMembers, MaxPairHousehold)]
    /\ \E member \in HouseholdMembers, k \in 1..(Len(argApplicant.Household) + 1) :
           otherApplicant =
               [argApplicant EXCEPT !.Household = InsertAt(@, k, member)]
    /\ argScheme \in [Criteria : [EmploymentStatus : {EmptyString, S_unemployed},
                                  MaritalStatus : {EmptyString},
                                  HasChildren : [SchoolLevel :
                                      {EmptyString, S_primary, S_secondary}]]]
    /\ nowYear \in ClockYears
    /\ called = FALSE
    /\ ret = FALSE
    /\ calledOther = FALSE
    /\ retOther = FALSE
    /\ at = 0
    /\ atOther = 0
    /\ ServiceInit

GrowNext == Evaluate \/ EvaluateOther \/ YearPasses

SpecGrow == GrowInit /\ [][GrowNext]_vars

(***************************************************************************)
(* Spec: the service.                                                      *)
(***************************************************************************)
Init == ServiceInit /\ EligIdle

Next ==
    \/ \E p \in DOMAIN requests, a \in ApplicantIDs \cup {NoID}, s \in SchemeIDs \cup {NoID} :
           ReceiveCreateApplication(p, a, s)
    \/ \E p \in DOMAIN requests : HandlerGetApplicant(p)
    \/ \E p \in DOMAIN requests : HandlerGetScheme(p)
    \/ \E p \in DOMAIN requests : RepoGetApplicant(p)
    \/ \E p \in DOMAIN requests : RepoGetScheme(p)
    \/ \E p \in DOMAIN requests : RepoInsert(p)
    \/ \E p \in DOMAIN requests : HandlerReadBack(p)
    \/ \E id \in ApplicantIDs, e \in UpdateEmploymentValues, m \in UpdateMaritalValues :
           UpdateApplicant(id, e, m)
    \/ \E id \in ApplicantIDs : DeleteApplicant(id)
    \/ \E id \in SchemeIDs, n \in SchemeNames, c \in UpdateCriteriaValues :
           UpdateScheme(id, n, c)
    \/ \E id \in SchemeIDs : DeleteScheme(id)
    \/ \E id \in 1..MaxApplications, st \in UpdateStatusValues : UpdateApplication(id, st)
    \/ \E id \in 1..MaxApplications : DeleteApplication(id)
    \/ Tick

Spec == Init /\ [][Next]_vars

(***************************************************************************)
(* SpecApps: the applications table under POST, PUT and DELETE             *)
(* /api/applications and under direct calls of ApplicationRepository.Create *)
(* and UpdateStatus, with any status string.                               *)
(***************************************************************************)
AppsNext ==
    \/ \E p \in DOMAIN requests, a \in ApplicantIDs \cup {NoID}, s \in SchemeIDs \cup {NoID} :
           ReceiveCreateApplication(p, a, s)
    \/ \E p \in DOMAIN requests : HandlerGetApplicant(p)
    \/ \E p \in DOMAIN requests : HandlerGetScheme(p)
    \/ \E p \in DOMAIN requests, a \in ApplicantIDs, s \in SchemeIDs, st \in AnyStatusValues :
           CallCreate(p, a, s, st)
    \/ \E p \in DOMAIN requests : RepoGetApplicant(p)
    \/ \E p \in DOMAIN requests : RepoGetScheme(p)
    \/ \E p \in DOMAIN requests : RepoInsert(p)
    \/ \E p \in DOMAIN requests : HandlerReadBack(p)
    \/ \E id \in 1..MaxApplications, st \in AnyStatusValues : UpdateApplication(id, st)
    \/ \E id \in 1..MaxApplications, st \in AnyStatusValues : UpdateStatus(id, st)
    \/ \E id \in 1..MaxApplications : DeleteApplication(id)
    \/ Tick

SpecApps == Init /\ [][AppsNext]_vars

(***************************************************************************)
(* SpecMany: POST /api/applications served on two connections at a time,   *)
(* beside PUT and DELETE /api/applications and UpdateStatus.  The          *)
(* identifiers uuid.New() hands out are numbered from 0.                   *)
(***************************************************************************)
ManyInit ==
    /\ applicants = SampleApplicants
    /\ household_members = SampleHouseholdMembers
    /\ schemes = SampleSchemes
    /\ benefits = SampleBenefits
    /\ applications = << >>
    /\ nextApplicationID = 0
    /\ clock = 2025
    /\ requests = [p \in {"c1", "c2"} |-> Idle]
    /\ EligIdle

ManyNext ==
    \/ \E p \in DOMAIN requests, s \in SchemeIDs :
           ReceiveCreateApplication(p, "james", s)
    \/ \E p \in DOMAIN requests : HandlerGetApplicant(p)
    \/ \E p \in DOMAIN requests : HandlerGetScheme(p)
    \/ \E p \in DOMAIN requests : RepoGetApplicant(p)
    \/ \E p \in DOMAIN requests : RepoGetScheme(p)
    \/ \E p \in DOMAIN requests : RepoInsert(p)
    \/ \E p \in DOMAIN requests : HandlerReadBack(p)
    \/ \E id \in 0..MaxApplications : UpdateApplication(id, S_approved)
    \/ \E id \in 0..MaxApplications : UpdateStatus(id, S_rejected)
    \/ \E id \in 0..MaxApplications : DeleteApplication(id)
    \/ Tick

SpecMany == ManyInit /\ [][ManyNext]_vars

(***************************************************************************)
(* SpecGone: POST /api/applications and GET /api/schemes/eligible beside   *)
(* DELETE /api/applicants/{id} and DELETE /api/schemes/{id}.               *)
(***************************************************************************)
GoneNext ==
    \/ \E p \in DOMAIN requests, a \in ApplicantIDs, s \in SchemeIDs :
           ReceiveCreateApplication(p, a, s)
    \/ \E p \in DOMAIN requests : HandlerGetApplicant(p)
    \/ \E p \in DOMAIN requests : HandlerGetScheme(p)
    \/ \E p \in DOMAIN requests : RepoGetApplicant(p)
    \/ \E p \in DOMAIN requests : RepoGetScheme(p)
    \/ \E p \in DOMAIN requests : RepoInsert(p)
    \/ \E p \in DOMAIN requests : HandlerReadBack(p)
    \/ \E p \in DOMAIN requests, a \in ApplicantIDs : ReceiveGetEligibleSchemes(p, a)
    \/ \E p \in DOMAIN requests : ListHandlerGetApplicant(p)
    \/ \E p \in DOMAIN requests : ListRepoGetApplicant(p)
    \/ \E p \in DOMAIN requests : ListGetAll(p)
    \/ \E p \in DOMAIN requests : ListFilter(p)
    \/ \E id \in ApplicantIDs : DeleteApplicant(id)
    \/ \E id \in SchemeIDs : DeleteScheme(id)

SpecGone == Init /\ [][GoneNext]_vars

(***************************************************************************)
(* SpecFail: POST /api/applications, direct calls of Create and GET        *)
(* /api/schemes/eligible against a store whose reads may fail.             *)
(***************************************************************************)
AllStoreReadErrors ==
    UNION {StoreReadErrors(pc) : pc \in {"h_applicant", "h_scheme", "l_schemes"}}

FailNext ==
    \/ \E p \in DOMAIN requests, a \in ApplicantIDs, s \in SchemeIDs :
           ReceiveCreateApplication(p, a, s)
    \/ \E p \in DOMAIN requests : HandlerGetApplicant(p)
    \/ \E p \in DOMAIN requests : HandlerGetScheme(p)
    \/ \E p \in DOMAIN requests, a \in ApplicantIDs, s \in SchemeIDs :
           CallCreate(p, a, s, S_pending)
    \/ \E p \in DOMAIN requests : RepoGetApplicant(p)
    \/ \E p \in DOMAIN requests : RepoGetScheme(p)
    \/ \E p \in DOMAIN requests : RepoInsert(p)
    \/ \E p \in DOMAIN requests : HandlerReadBack(p)
    \/ \E p \in DOMAIN requests, a \in ApplicantIDs : ReceiveGetEligibleSchemes(p, a)
    \/ \E p \in DOMAIN requests : ListHandlerGetApplicant(p)
    \/ \E p \in DOMAIN requests : ListRepoGetApplicant(p)
    \/ \E p \in DOMAIN requests : ListGetAll(p)
    \/ \E p \in DOMAIN requests : ListFilter(p)
    \/ \E p \in DOMAIN requests, what \in AllStoreReadErrors : ReadFails(p, what)
    \/ \E p \in DOMAIN requests : ReadBackFails(p)

SpecFail == Init /\ [][FailNext]_vars

(***************************************************************************)
(* SpecJoin: POST /api/applicants on one connection while others ask for   *)
(* the new applicant's eligible schemes or file an application for the     *)
(* applicant.                                                              *)
(***************************************************************************)
JoinInit ==
    /\ applicants = SampleApplicants
    /\ household_members = SampleHouseholdMembers
    /\ schemes = SampleSchemes
    /\ benefits = SampleBenefits
    /\ applications = << >>
    /\ nextApplicationID = 1
    /\ clock = 2025
    /\ requests = [p \in {"c1", "c2"} |-> Idle]
    /\ EligIdle

JoinNext ==
    \/ \E p \in DOMAIN requests : ReceiveCreateApplicant(p)
    \/ \E p \in DOMAIN requests : CreateApplicantRow(p)
    \/ \E p \in DOMAIN requests : CreateHouseholdMember(p)
    \/ \E p \in DOMAIN requests : ReceiveGetEligibleSchemes(p, NewApplicantID)
    \/ \E p \in DOMAIN requests : ListHandlerGetApplicant(p)
    \/ \E p \in DOMAIN requests : ListRepoGetApplicant(p)
    \/ \E p \in DOMAIN requests : ListGetAll(p)
    \/ \E p \in DOMAIN requests : ListFilter(p)
    \/ \E p \in DOMAIN requests : ReceiveCreateApplication(p, NewApplicantID, "rasf")
    \/ \E p \in DOMAIN requests : HandlerGetApplicant(p)
    \/ \E p \in DOMAIN requests : HandlerGetScheme(p)
    \/ \E p \in DOMAIN requests : RepoGetApplicant(p)
    \/ \E p \in DOMAIN requests : RepoGetScheme(p)
    \/ \E p \in DOMAIN requests : RepoInsert(p)
    \/ \E p \in DOMAIN requests : HandlerReadBack(p)
    \/ DeleteApplicant(NewApplicantID)

SpecJoin == JoinInit /\ [][JoinNext]_vars

(***************************************************************************)
(* SpecList: GET /api/schemes/eligible beside the handlers that write      *)
(* applicants and schemes.                                                 *)
(***************************************************************************)
ListNext ==
    \/ \E p \in DOMAIN requests, a \in ApplicantIDs \cup {NoID} :
           ReceiveGetEligibleSchemes(p, a)
    \/ \E p \in DOMAIN requests : ListHandlerGetApplicant(p)
    \/ \E p \in DOMAIN requests : ListRepoGetApplicant(p)
    \/ \E p \in DOMAIN requests : ListGetAll(p)
    \/ \E p \in DOMAIN requests : ListFilter(p)
    \/ \E id \in ApplicantIDs, e \in UpdateEmploymentValues, m \in UpdateMaritalValues :
           UpdateApplicant(id, e, m)
    \/ \E id \in ApplicantIDs : DeleteApplicant(id)
    \/ \E id \in SchemeIDs, n \in ListSchemeNames, c \in UpdateCriteriaValues :
           UpdateScheme(id, n, c)
    \/ \E id \in SchemeIDs : DeleteScheme(id)
    \/ Tick

SpecList == Init /\ [][ListNext]_vars

(***************************************************************************)
(* SpecRepeat: GET /api/schemes/eligible on two connections while nothing  *)
(* writes the database; only the calendar moves.                           *)
(***************************************************************************)
RepeatInit ==
    /\ applicants = SampleApplicants
    /\ household_members = SampleHouseholdMembers
    /\ schemes \in {SampleSchemes, RenamedSchemes}
    /\ benefits = SampleBenefits
    /\ applications = << >>
    /\ nextApplicationID = 1
    /\ clock \in NewYearEves
    /\ requests = [p \in {"c1", "c2"} |-> Idle]
    /\ EligIdle

RepeatNext ==
    \/ \E p \in DOMAIN requests, a \in ApplicantIDs \cup {NoID} :
           ReceiveGetEligibleSchemes(p, a)
    \/ \E p \in DOMAIN requests : RepeatGetEligibleSchemes(p)
    \/ \E p \in DOMAIN requests : ListHandlerGetApplicant(p)
    \/ \E p \in DOMAIN requests : ListRepoGetApplicant(p)
    \/ \E p \in DOMAIN requests : ListGetAll(p)
    \/ \E p \in DOMAIN requests : ListFilter(p)
    \/ Tick

SpecRepeat == RepeatInit /\ [][RepeatNext]_vars

(***************************************************************************)
(* Vocabulary of the properties of isEligible.                             *)
(***************************************************************************)
\* Equality of two strings ignoring letter case, character by character.
EqualFold(a, b) ==
    /\ Len(a) = Len(b)
    /\ \A i \in 1..Len(a) : ToLowerChar(a[i]) = ToLowerChar(b[i])

ArgCriteria == argScheme.Criteria
ArgSchoolLevel == ArgCriteria.HasChildren.SchoolLevel
ArgHousehold == argApplicant.Household
YearDifference(member) == nowYear - member.DateOfBirth

\* The relations of RelationValues that name a son or a daughter.
ChildRelations == {S_daughter, S_Daughter, S_StepSon, S_SON}

EmploymentSatisfied ==
    \/ ArgCriteria.EmploymentStatus = EmptyString
    \/ EqualFold(ArgCriteria.EmploymentStatus, argApplicant.EmploymentStatus)

MaritalSatisfied ==
    \/ ArgCriteria.MaritalStatus = EmptyString
    \/ EqualFold(ArgCriteria.MaritalStatus, argApplicant.MaritalStatus)

\* Some household member is a son or a daughter of primary-school age.
SomePrimaryChild ==
    \E i \in 1..Len(ArgHousehold) :
        /\ \/ Contains(ToLower(ArgHousehold[i].Relation), S_son)
           \/ Contains(ToLower(ArgHousehold[i].Relation), S_daughter)
        /\ YearDifference(ArgHousehold[i]) \in 6..12

ChildrenSatisfied ==
    \/ ArgSchoolLevel = EmptyString
    \/ (ArgSchoolLevel = S_primary /\ SomePrimaryChild)

OnlyChildrenCriterion ==
    /\ ArgCriteria.EmploymentStatus = EmptyString
    /\ ArgCriteria.MaritalStatus = EmptyString

\* The household is one "daughter" with the given year difference.
OneDaughter(diff) ==
    /\ Len(ArgHousehold) = 1
    /\ ArgHousehold[1].Relation = S_daughter
    /\ YearDifference(ArgHousehold[1]) = diff

(***************************************************************************)
(* Vocabulary of the properties of POST /api/applications.                 *)
(***************************************************************************)
\* Connection p is inside ApplicationRepository.Create, past both loads.
AtGate(p) == requests[p].op = "CreateApplication" /\ requests[p].pc = "r_insert"

\* isEligible on the applicant and the scheme Create loaded.
LoadedEligible(p) == isEligible(requests[p].applicant[1], requests[p].scheme[1], clock)

\* The next statement of p looks up an identifier the store does not hold.
LookupMisses(p) ==
    /\ requests[p].op = "CreateApplication"
    /\ \/ /\ requests[p].pc \in {"h_applicant", "r_applicant"}
          /\ requests[p].ApplicantID \notin DOMAIN applicants
       \/ /\ requests[p].pc \in {"h_scheme", "r_scheme"}
          /\ requests[p].SchemeID \notin DOMAIN schemes

\* The next statement of p looks up an identifier the store holds.
LookupHits(p) ==
    /\ requests[p].op = "CreateApplication"
    /\ \/ /\ requests[p].pc \in {"h_applicant", "r_applicant"}
          /\ requests[p].ApplicantID \in DOMAIN applicants
       \/ /\ requests[p].pc \in {"h_scheme", "r_scheme"}
          /\ requests[p].SchemeID \in DOMAIN schemes

\* The statement after each lookup of the create path.
AfterLookup(pc) ==
    CASE pc = "h_applicant" -> "h_scheme"
      [] pc = "h_scheme" -> "r_applicant"
      [] pc = "r_applicant" -> "r_scheme"
      [] pc = "r_scheme" -> "r_insert"

\* Connection p takes a step.
Steps(p) == requests'[p] # requests[p]

(***************************************************************************)
(* C1: a row enters the applications table only by the INSERT of           *)
(* ApplicationRepository.Create, taken by a request whose loaded applicant *)
(* and scheme satisfy isEligible at that moment; the row names that        *)
(* request's applicant and scheme, and no step of any operation makes a    *)
(* persisted row name another applicant or scheme.                         *)
(***************************************************************************)
C1_OnlyGatedCreateInserts ==
    [][/\ \A id \in DOMAIN applications' \ DOMAIN applications :
            \E p \in DOMAIN requests :
                /\ AtGate(p)
                /\ LoadedEligible(p)
                /\ requests'[p].pc = "h_readback"
                /\ requests'[p].ID = id
                /\ applications'[id].ApplicantID = requests[p].ApplicantID
                /\ applications'[id].SchemeID = requests[p].SchemeID
       /\ \A id \in DOMAIN applications' \cap DOMAIN applications :
            /\ applications'[id].ApplicantID = applications[id].ApplicantID
            /\ applications'[id].SchemeID = applications[id].SchemeID]_vars

\* Create has just inserted a row and the handler is about to read it back.
C1_Witness ==
    \E p \in DOMAIN requests :
        /\ requests[p].pc = "h_readback"
        /\ requests[p].ID \in DOMAIN applications
        /\ applications[requests[p].ID].ApplicantID = requests[p].ApplicantID

(***************************************************************************)
(* C2: a create request whose applicant and scheme are in the store passes *)
(* each lookup and Create decides on the rows as stored at its loads; when *)
(* isEligible is false for what Create loaded, the request ends with the   *)
(* "not eligible" error (not a "not found" one) and its step leaves the    *)
(* applications table exactly as it was.                                   *)
(***************************************************************************)
C2_IneligibleFailsWithoutWrite ==
    [][\A p \in DOMAIN requests :
          /\ (LookupHits(p) /\ Steps(p)) =>
                /\ requests'[p].pc = AfterLookup(requests[p].pc)
                /\ requests'[p].err = "none"
                /\ requests[p].pc = "r_applicant" =>
                       requests'[p].applicant = ApplicantGetByID(requests[p].ApplicantID)
                /\ requests[p].pc = "r_scheme" =>
                       requests'[p].scheme = SchemeGetByID(requests[p].SchemeID)
                /\ applications' = applications
          /\ (AtGate(p) /\ ~ LoadedEligible(p) /\ Steps(p)) =>
                /\ requests'[p].pc = "done"
                /\ requests'[p].err = "Ineligible"
                /\ requests'[p].status = 500
                /\ applications' = applications
                /\ nextApplicationID' = nextApplicationID]_vars

\* A create for a stored applicant and a stored scheme, ineligible as stored,
\* has ended with the "not eligible" error.
C2_Witness ==
    \E p \in DOMAIN requests :
        /\ requests[p].pc = "done"
        /\ requests[p].err = "Ineligible"
        /\ requests[p].ApplicantID \in DOMAIN applicants
        /\ requests[p].SchemeID \in DOMAIN schemes
        /\ ~ isEligible(ApplicantGetByID(requests[p].ApplicantID)[1],
                        SchemeGetByID(requests[p].SchemeID)[1], clock)

(***************************************************************************)
(* C3: when a lookup of a create request finds no applicant or no scheme   *)
(* under the requested identifier, the request ends there with a "not      *)
(* found" error (404 from the handler's lookups, 500 from Create's), it    *)
(* never reaches the eligibility gate or the INSERT, and the applications  *)
(* table is unchanged.                                                     *)
(***************************************************************************)
C3_UnknownIdentifierNotFound ==
    [][\A p \in DOMAIN requests :
          (LookupMisses(p) /\ Steps(p)) =>
              /\ requests'[p].pc = "done"
              /\ requests'[p].err = "NotFound"
              /\ requests'[p].status =
                     IF requests[p].pc \in {"h_applicant", "h_scheme"} THEN 404 ELSE 500
              /\ requests'[p].ID = 0
              /\ applications' = applications
              /\ nextApplicationID' = nextApplicationID]_vars

\* A create that named a scheme the store does not hold has ended with 404.
C3_Witness ==
    \E p \in DOMAIN requests :
        /\ requests[p].pc = "done"
        /\ requests[p].err = "NotFound"
        /\ requests[p].status = 404
        /\ requests[p].ApplicantID \in DOMAIN applicants
        /\ requests[p].SchemeID \notin DOMAIN schemes

(***************************************************************************)
(* Vocabulary of the properties of GET /api/schemes/eligible.              *)
(***************************************************************************)
\* Connection p is about to take the named statement of the listing request.
ListAt(p, pc) == requests[p].op = "GetEligibleSchemes" /\ requests[p].pc = pc

\* Connection p holds the 200 response of a listing request.
Listed(p) ==
    /\ requests[p].op = "GetEligibleSchemes"
    /\ requests[p].pc = "done"
    /\ requests[p].status = 200

\* R picks rows of L at strictly increasing positions.
IsSubsequence(R, L) ==
    \E f \in [1..Len(R) -> 1..Len(L)] :
        /\ \A k \in 1..Len(R) : R[k] = L[f[k]]
        /\ \A k, m \in 1..Len(R) : k < m => f[k] < f[m]

(***************************************************************************)
(* C11: GetEligibleSchemes loads the applicant as stored, GetAll returns   *)
(* each stored scheme once in ascending order of name, and the result is   *)
(* a subsequence of that listing holding exactly the schemes of the        *)
(* listing for which isEligible(applicant, scheme) is true: none missing,  *)
(* none ineligible, none twice, order kept.                                *)
(***************************************************************************)
C11_EligibleSubsequenceOfListing ==
    [][\A p \in DOMAIN requests :
          /\ (ListAt(p, "l_load") /\ Steps(p) /\ requests[p].ApplicantID \in DOMAIN applicants) =>
                requests'[p].applicant = ApplicantGetByID(requests[p].ApplicantID)
          /\ (ListAt(p, "l_schemes") /\ Steps(p)) =>
                LET L == requests'[p].schemes
                IN  /\ Len(L) = Cardinality(DOMAIN schemes)
                    /\ {L[i].ID : i \in 1..Len(L)} = DOMAIN schemes
                    /\ \A i \in 1..Len(L) :
                           /\ L[i].Name = schemes[L[i].ID].Name
                           /\ L[i].Criteria = UnmarshalCriteria(schemes[L[i].ID].criteria)
                    /\ \A i, j \in 1..Len(L) :
                           i < j => SchemeNameRank(L[i].Name) <= SchemeNameRank(L[j].Name)
          /\ (ListAt(p, "l_filter") /\ Steps(p)) =>
                LET L == requests[p].schemes
                    R == requests'[p].result
                IN  /\ Listed(p)'
                    /\ IsSubsequence(R, L)
                    /\ \A i \in 1..Len(L) :
                           isEligible(requests[p].applicant[1], L[i], clock)
                               <=> \E k \in 1..Len(R) : R[k] = L[i]]_vars

\* A listing request has returned both schemes, the one stored second first
\* because its name now sorts first.
C11_Witness ==
    \E p \in DOMAIN requests :
        /\ Listed(p)
        /\ Len(requests[p].result) = 2
        /\ requests[p].result[1].ID = "rasf"
        /\ SchemeNameRank(requests[p].result[1].Name)
               < SchemeNameRank(requests[p].result[2].Name)

(***************************************************************************)
(* C12: when a lookup of a listing request finds no applicant under the    *)
(* requested identifier, the request ends there with a "not found" error   *)
(* (404 from the handler's lookup, 500 from the repository's) and carries  *)
(* no schemes; a 200 response is only ever produced from an applicant the  *)
(* repository loaded.                                                      *)
(***************************************************************************)
C12_ListUnknownApplicantNotFound ==
    [][\A p \in DOMAIN requests :
          /\ ((ListAt(p, "l_applicant") \/ ListAt(p, "l_load"))
                  /\ requests[p].ApplicantID \notin DOMAIN applicants /\ Steps(p)) =>
                /\ requests'[p].pc = "done"
                /\ requests'[p].err = "NotFound"
                /\ requests'[p].status = IF ListAt(p, "l_applicant") THEN 404 ELSE 500
                /\ requests'[p].result = << >>
          /\ (Steps(p) /\ Listed(p)') =>
                /\ ListAt(p, "l_filter")
                /\ requests[p].applicant # Nil]_vars

\* A listing request for an applicant the store does not hold has ended with 404.
C12_Witness ==
    \E p \in DOMAIN requests :
        /\ requests[p].op = "GetEligibleSchemes"
        /\ requests[p].pc = "done"
        /\ requests[p].err = "NotFound"
        /\ requests[p].status = 404
        /\ requests[p].ApplicantID \notin DOMAIN applicants

(***************************************************************************)
(* C13: while no applicant, household member or scheme is created, updated *)
(* or deleted, a listing request repeated for the same applicant after its *)
(* 200 response returns the same schemes in the same order as before.      *)
(***************************************************************************)
C13_SameListingTwice ==
    \A p \in DOMAIN requests :
        (Listed(p) /\ requests[p].previous # Nil) =>
            requests[p].result = requests[p].previous[1].result

\* No two stored schemes have the same name.
SchemeNamesDistinct ==
    \A x, y \in DOMAIN schemes : x # y => schemes[x].Name # schemes[y].Name

\* C13 as amended: ... and both requests evaluated eligibility in the same
\* calendar year and no two schemes share a name, the repeated request
\* returns the same schemes in the same order.
C13_SameListingSameYear ==
    \A p \in DOMAIN requests :
        (Listed(p) /\ requests[p].previous # Nil
            /\ requests[p].previous[1].year = requests[p].year
            /\ SchemeNamesDistinct) =>
            requests[p].result = requests[p].previous[1].result

\* A repeated listing request has returned, in the year of the first, the
\* two schemes the first returned.
C13_Witness ==
    \E p \in DOMAIN requests :
        /\ Listed(p)
        /\ requests[p].previous # Nil
        /\ requests[p].previous[1].year = requests[p].year
        /\ SchemeNamesDistinct
        /\ Len(requests[p].result) = 2

(***************************************************************************)
(* C14: no step of a listing request, whether the request ends with 200 or *)
(* with an error, changes the applicants, household_members, schemes,      *)
(* benefits or applications table.                                         *)
(***************************************************************************)
C14_ListingWritesNothing ==
    [][\A p \in DOMAIN requests :
          (Steps(p) /\ requests'[p].op = "GetEligibleSchemes") =>
              /\ applicants' = applicants
              /\ household_members' = household_members
              /\ schemes' = schemes
              /\ benefits' = benefits
              /\ applications' = applications
              /\ nextApplicationID' = nextApplicationID]_vars

\* A listing request has returned an eligible scheme and the tables are as
\* schema.sql left them.
C14_Witness ==
    \E p \in DOMAIN requests :
        /\ Listed(p)
        /\ requests[p].result # << >>
        /\ applicants = SampleApplicants
        /\ household_members = SampleHouseholdMembers
        /\ schemes = SampleSchemes
        /\ benefits = SampleBenefits
        /\ applications = << >>

Decided == {S_approved, S_rejected}

\* Connection p takes the INSERT of ApplicationRepository.Create and Create
\* returns nil.
CreateSucceeds(p) ==
    /\ InCreate(p)
    /\ requests[p].pc = "r_insert"
    /\ Steps(p)
    /\ requests'[p].err = "none"

\* The step adds exactly the row id to the applications table, for the
\* applicant and the scheme connection p asked for, dated now and undecided.
PersistsOne(p, id) ==
    /\ id \notin DOMAIN applications
    /\ DOMAIN applications' = DOMAIN applications \cup {id}
    /\ \A other \in DOMAIN applications : applications'[other] = applications[other]
    /\ applications'[id].ApplicantID = requests[p].ApplicantID
    /\ applications'[id].SchemeID = requests[p].SchemeID
    /\ applications'[id].ApplicationDate = clock
    /\ applications'[id].DecisionDate = Nil

(***************************************************************************)
(* C16: whenever a step changes the status of a persisted application to   *)
(* approved or rejected, the row's decision date is set afterwards, and    *)
(* whenever it changes the status to another value the decision date is    *)
(* NULL afterwards.                                                        *)
(***************************************************************************)
C16_DecisionDateFollowsStatus ==
    [][\A id \in DOMAIN applications \cap DOMAIN applications' :
          applications'[id].Status # applications[id].Status =>
              (applications'[id].DecisionDate # Nil
                   <=> applications'[id].Status \in Decided)]_vars

(***************************************************************************)
(* C17: every persisted application has a decision date if and only if     *)
(* its status is approved or rejected.                                     *)
(***************************************************************************)
C17_DecisionDateIffDecided ==
    \A id \in DOMAIN applications :
        applications[id].DecisionDate # Nil <=> applications[id].Status \in Decided

C19_StatusInEnum ==
    \A id \in DOMAIN applications :
        applications[id].Status \in {S_pending, S_approved, S_rejected}

\* An application created pending has been given status rejected.
C19_Witness ==
    \E id \in DOMAIN applications :
        /\ applications[id].Status = S_rejected
        /\ nextApplicationID > id

(***************************************************************************)
(* C20: two applicants that differ only in household members' employment   *)
(* status and in their own date of birth and sex get the same isEligible   *)
(* result for every scheme.                                                *)
(***************************************************************************)
C20_UnreadFieldsDoNotMatter ==
    (called /\ calledOther /\ SameButUnread(argApplicant, otherApplicant))
        => ret = retOther

\* Both calls are made, on applicants of different sex and date of birth
\* whose only household member differs in employment status, against a
\* scheme that asks for unemployment and a primary school child; both
\* applicants are employed and one's household member is unemployed.
C20_Witness ==
    /\ called /\ calledOther
    /\ argApplicant.Sex # otherApplicant.Sex
    /\ argApplicant.DateOfBirth # otherApplicant.DateOfBirth
    /\ Len(argApplicant.Household) = 1
    /\ argApplicant.Household[1].EmploymentStatus = S_unemployed
    /\ otherApplicant.Household[1].EmploymentStatus = S_employed
    /\ argScheme.Criteria.EmploymentStatus = S_unemployed
    /\ argScheme.Criteria.HasChildren.SchoolLevel = S_primary
    /\ argApplicant.EmploymentStatus = S_employed
    /\ ~ ret /\ ~ retOther

(***************************************************************************)
(* C30: a household member whose relation is "grandson", "son-in-law" or   *)
(* "person" (in any letter case) gives the same isEligible result as the   *)
(* same member with relation "son", and with a year difference in 6..12    *)
(* it satisfies the "primary" children clause.                             *)
(***************************************************************************)
C30_SubstringSonIsChild ==
    LET kin == argApplicant.Household[Len(argApplicant.Household)]
    IN  (called /\ calledOther
             /\ ToLower(kin.Relation) \in {S_grandson, S_son_in_law, S_person}
             /\ otherApplicant = WithLastRelation(argApplicant, S_son))
            => /\ ret = retOther
               /\ (ArgSchoolLevel = S_primary /\ YearDifference(kin) \in 6..12) => ret

\* Both calls are made on a household whose only member is a "person" with
\* year difference 12, against a scheme asking for a primary school child,
\* and isEligible returned true.
C30_Witness ==
    /\ called /\ calledOther
    /\ Len(argApplicant.Household) = 1
    /\ argApplicant.Household[1].Relation = S_person
    /\ YearDifference(argApplicant.Household[1]) = 12
    /\ otherApplicant.Household[1].Relation = S_son
    /\ ArgSchoolLevel = S_primary
    /\ ret /\ retOther

(***************************************************************************)
(* C27: when isEligible is called in the same calendar year on an          *)
(* applicant and on that applicant with one more household member, a true  *)
(* result for the smaller household comes with a true result for the       *)
(* larger one (so removing a member never turns false into true).          *)
(***************************************************************************)
C27_MonotoneInHousehold ==
    (called /\ calledOther /\ at = atOther
        /\ Len(otherApplicant.Household) = Len(argApplicant.Household) + 1)
        => (ret => retOther)

\* Both calls are made in one year against a scheme asking for a primary
\* school child; the added member stands first and is a daughter too old
\* for primary school, the member behind her is a child of school age, and
\* both results are true.
C27_Witness ==
    /\ called /\ calledOther /\ at = atOther
    /\ ArgSchoolLevel = S_primary
    /\ Len(argApplicant.Household) = 1
    /\ Len(otherApplicant.Household) = 2
    /\ otherApplicant.Household[2] = argApplicant.Household[1]
    /\ otherApplicant.Household[1].Relation = S_daughter
    /\ at - otherApplicant.Household[1].DateOfBirth = 13
    /\ ret /\ retOther

(***************************************************************************)
(* C24: no step changes the applicant identifier, the scheme identifier or *)
(* the application date of a persisted application, and a step that        *)
(* changes a persisted application changes no other one.                   *)
(***************************************************************************)
C24_UpdateFrame ==
    [][LET kept == DOMAIN applications \cap DOMAIN applications'
       IN  /\ \A id \in kept :
                  /\ applications'[id].ApplicantID = applications[id].ApplicantID
                  /\ applications'[id].SchemeID = applications[id].SchemeID
                  /\ applications'[id].ApplicationDate = applications[id].ApplicationDate
           /\ \A id, other \in kept :
                  (applications'[id] # applications[id] /\ other # id)
                      => applications'[other] = applications[other]]_vars

\* Two applications filed in 2025 are on file in 2026: one was approved by
\* PUT, the other rejected by UpdateStatus in 2026.
C24_Witness ==
    \E id, other \in DOMAIN applications :
        /\ id # other
        /\ applications[id].Status = S_approved
        /\ applications[other].Status = S_rejected
        /\ applications[other].DecisionDate = Some(2026)
        /\ applications[id].ApplicationDate = 2025
        /\ applications[other].ApplicationDate = 2025

(***************************************************************************)
(* C26: whenever ApplicationRepository.Create reaches its INSERT with an   *)
(* eligible applicant and scheme that are still stored, the create         *)
(* succeeds and adds one row under an identifier no stored application     *)
(* has, whatever applications for the same pair are already stored.        *)
(***************************************************************************)
C26_NoDeduplication ==
    [][\A p \in DOMAIN requests :
          (/\ InCreate(p) /\ requests[p].pc = "r_insert" /\ Steps(p)
           /\ LoadedEligible(p)
           /\ requests[p].ApplicantID \in DOMAIN applicants
           /\ requests[p].SchemeID \in DOMAIN schemes
           /\ requests[p].Status \in StatusEnum)
              => /\ CreateSucceeds(p)
                 /\ PersistsOne(p, requests'[p].ID)]_vars

\* Both connections got 201 for the same applicant and scheme, under
\* different identifiers; both rows are stored and the first was approved
\* before the second was created.
C26_Witness ==
    /\ \A p \in DOMAIN requests :
           /\ requests[p].op = "CreateApplication"
           /\ requests[p].pc = "done"
           /\ requests[p].status = 201
           /\ requests[p].ID \in DOMAIN applications
           /\ applications[requests[p].ID].ApplicantID = "james"
           /\ applications[requests[p].ID].SchemeID = "ras"
    /\ requests["c1"].ID # requests["c2"].ID
    /\ applications[0].Status = S_approved
    /\ applications[1].Status = S_pending

(***************************************************************************)
(* Vocabulary of the properties of concurrent writes.                      *)
(***************************************************************************)
\* The applicant and the scheme connection p names are both stored.
PairStored(p) ==
    /\ requests[p].ApplicantID \in DOMAIN applicants
    /\ requests[p].SchemeID \in DOMAIN schemes

\* isEligible on the applicant and the scheme of p as they are stored now.
StoredEligible(p) ==
    isEligible(ApplicantGetByID(requests[p].ApplicantID)[1],
               SchemeGetByID(requests[p].SchemeID)[1], clock)

\* The applicant and scheme of application id are stored and isEligible
\* holds of them as they are stored now.
ApplicationEligible(id) ==
    /\ applications[id].ApplicantID \in DOMAIN applicants
    /\ applications[id].SchemeID \in DOMAIN schemes
    /\ isEligible(ApplicantGetByID(applications[id].ApplicantID)[1],
                  SchemeGetByID(applications[id].SchemeID)[1], clock)

(***************************************************************************)
(* C23: when Create stands at its INSERT with an applicant and a scheme    *)
(* it loaded as eligible, and an update has since made the stored pair     *)
(* ineligible, the INSERT still succeeds: the application is persisted at  *)
(* a moment when its applicant does not satisfy its scheme's criteria.     *)
(***************************************************************************)
C23_StaleGateStillInserts ==
    [][\A p \in DOMAIN requests :
          (AtGate(p) /\ Steps(p) /\ LoadedEligible(p)
               /\ PairStored(p) /\ ~ StoredEligible(p))
              => /\ requests'[p].pc = "h_readback"
                 /\ requests'[p].ID \in DOMAIN applications' \ DOMAIN applications
                 /\ applicants' = applicants
                 /\ household_members' = household_members
                 /\ schemes' = schemes]_vars

\* Create has just inserted for an applicant and a scheme it loaded as
\* eligible, and the stored pair is not eligible.
C23_Witness ==
    \E p \in DOMAIN requests :
        /\ requests[p].op = "CreateApplication"
        /\ requests[p].pc = "h_readback"
        /\ requests[p].ID \in DOMAIN applications
        /\ LoadedEligible(p)
        /\ PairStored(p)
        /\ ~ StoredEligible(p)

(***************************************************************************)
(* C28: in every state, also one where the applicant of a persisted        *)
(* application no longer satisfies its scheme, PUT /api/applications/{id}  *)
(* with status approved is served and leaves the application approved; and *)
(* no step that changes an applicant, a household or a scheme changes or   *)
(* deletes an application.                                                 *)
(***************************************************************************)
C28_EligibilityOnlyAtCreation ==
    /\ [](\A id \in DOMAIN applications :
             ENABLED (/\ UpdateApplication(id, S_approved)
                      /\ applications'[id].Status = S_approved))
    /\ [][(\/ applicants' # applicants
           \/ household_members' # household_members
           \/ schemes' # schemes) => applications' = applications]_vars

\* An application whose stored applicant does not satisfy its stored scheme
\* is approved.
C28_Witness ==
    \E id \in DOMAIN applications :
        /\ applications[id].Status = S_approved
        /\ ~ ApplicationEligible(id)

(***************************************************************************)
(* C25: in every reachable state each persisted application names an       *)
(* applicant and a scheme that are stored.                                 *)
(***************************************************************************)
C25_NoDanglingApplication ==
    \A id \in DOMAIN applications :
        /\ applications[id].ApplicantID \in DOMAIN applicants
        /\ applications[id].SchemeID \in DOMAIN schemes

\* A create whose applicant or scheme was deleted after Create loaded it
\* has failed at the INSERT on the foreign key, in a behaviour where
\* another application was persisted.
C25_Witness ==
    \E p \in DOMAIN requests :
        /\ requests[p].pc = "done"
        /\ requests[p].err = "ForeignKey"
        /\ ~ PairStored(p)
        /\ applications # << >>

(***************************************************************************)
(* C29: when the applicant or the scheme of a POST /api/applications, or   *)
(* the applicant of a GET /api/schemes/eligible, is gone at a statement    *)
(* the repository runs after the handler found it, the request is          *)
(* answered 500, not 404, and no application is persisted.                 *)
(***************************************************************************)
C29_DeletedAfterCheckIs500 ==
    [][\A p \in DOMAIN requests :
          (/\ Steps(p)
           /\ \/ /\ requests[p].op = "CreateApplication"
                 /\ \/ /\ requests[p].pc = "r_applicant"
                       /\ requests[p].ApplicantID \notin DOMAIN applicants
                    \/ /\ requests[p].pc = "r_scheme"
                       /\ requests[p].SchemeID \notin DOMAIN schemes
                    \/ /\ requests[p].pc = "r_insert"
                       /\ ~ PairStored(p)
              \/ /\ requests[p].op = "GetEligibleSchemes"
                 /\ requests[p].pc = "l_load"
                 /\ requests[p].ApplicantID \notin DOMAIN applicants)
              => /\ requests'[p].pc = "done"
                 /\ requests'[p].status = 500
                 /\ applications' = applications
                 /\ nextApplicationID' = nextApplicationID]_vars

\* GET /api/schemes/eligible was answered 500 because the repository did
\* not find the applicant the handler had found.
C29_Witness ==
    \E p \in DOMAIN requests :
        /\ requests[p].op = "GetEligibleSchemes"
        /\ requests[p].pc = "done"
        /\ requests[p].status = 500
        /\ requests[p].err = "NotFound"
        /\ requests[p].ApplicantID \notin DOMAIN applicants

(***************************************************************************)
(* C22: when a read of the applicant, the household, the scheme, its       *)
(* benefits or its criteria fails in the create path before the INSERT or  *)
(* in GetEligibleSchemes, the step ends the request with that error (500   *)
(* over HTTP), and changes no table and inserts nothing.                   *)
(***************************************************************************)
C22_ReadFailurePropagates ==
    [][\A p \in DOMAIN requests :
          (Steps(p) /\ requests'[p].err \in StoreReadErrors(requests[p].pc))
              => /\ requests'[p].pc = "done"
                 /\ requests[p].op # "Create" => requests'[p].status = 500
                 /\ requests'[p].ID = 0
                 /\ requests'[p].result = << >>
                 /\ UNCHANGED <<tables, nextApplicationID>>]_vars

\* An eligible applicant's POST /api/applications ended with 500 because
\* the scheme's benefits could not be read; nothing is stored.
C22_Witness ==
    \E p \in DOMAIN requests :
        /\ requests[p].op = "CreateApplication"
        /\ requests[p].ApplicantID = "james" /\ requests[p].SchemeID = "ras"
        /\ requests[p].pc = "done"
        /\ requests[p].status = 500
        /\ requests[p].err = "error getting benefits"
        /\ applications = << >>
        /\ nextApplicationID = 1

(***************************************************************************)
(* C21: whenever a request is about to evaluate isEligible on an applicant *)
(* it loaded, and a POST /api/applicants has inserted that applicant's     *)
(* row, the loaded household has every member the POST submitted.          *)
(***************************************************************************)
C21_WholeHouseholdEvaluated ==
    \A p, q \in DOMAIN requests :
        (/\ requests[p].pc \in {"r_insert", "l_filter"}
         /\ requests[q].op = "CreateApplicant"
         /\ requests[q].ApplicantID = requests[p].ApplicantID
         /\ \/ requests[q].pc = "a_members"
            \/ requests[q].pc = "done" /\ requests[q].status = 201)
            => Len(requests[p].applicant[1].Household) = Len(requests[q].Household)

(***************************************************************************)
(* C4: isEligible returns true if and only if all three clauses hold:      *)
(* the employment criterion is empty or equals the applicant's employment  *)
(* status ignoring case, the marital criterion is empty or equals the      *)
(* applicant's marital status ignoring case, and the school-level          *)
(* criterion is empty or the household holds a qualifying child.           *)
(***************************************************************************)
C4_AllThreeClauses ==
    called => (ret <=> (EmploymentSatisfied /\ MaritalSatisfied /\ ChildrenSatisfied))

\* All three criteria set and all three satisfied, by a household whose
\* first member does not qualify and whose second does.
C4_Witness ==
    /\ called /\ ret
    /\ ArgCriteria.EmploymentStatus # EmptyString
    /\ ArgCriteria.MaritalStatus # EmptyString
    /\ ArgSchoolLevel = S_primary
    /\ Len(ArgHousehold) = 2
    /\ ArgHousehold[1].Relation = S_spouse

(***************************************************************************)
(* C5: for a scheme whose criteria are all empty, isEligible returns true  *)
(* for every applicant, whatever the statuses and the household (the empty *)
(* household included).                                                    *)
(***************************************************************************)
C5_EmptyCriteriaEligible ==
    (called /\ OnlyChildrenCriterion /\ ArgSchoolLevel = EmptyString) => ret

C5_Witness ==
    /\ called /\ ret
    /\ OnlyChildrenCriterion /\ ArgSchoolLevel = EmptyString
    /\ ArgHousehold = << >>

(***************************************************************************)
(* C6: a non-empty employment criterion that differs from the applicant's  *)
(* employment status ignoring case makes isEligible false whatever the     *)
(* other criteria and the household are; values that differ only in letter *)
(* case are equal and do not fail the clause.                              *)
(***************************************************************************)
C6_EmploymentMismatchFails ==
    /\ (called /\ ArgCriteria.EmploymentStatus # EmptyString
          /\ ~ EqualFold(ArgCriteria.EmploymentStatus, argApplicant.EmploymentStatus))
       => ~ ret
    /\ (called /\ EqualFold(ArgCriteria.EmploymentStatus, argApplicant.EmploymentStatus))
       => (ret <=> (MaritalSatisfied /\ ChildrenSatisfied))

\* "Unemployed" against "unemployed" passes; nothing else is asked.
C6_Witness ==
    /\ called /\ ret
    /\ ArgCriteria.EmploymentStatus = S_Unemployed
    /\ argApplicant.EmploymentStatus = S_unemployed

(***************************************************************************)
(* C7: a non-empty marital criterion that differs from the applicant's     *)
(* marital status ignoring case makes isEligible false; with an empty      *)
(* marital criterion the applicant's marital status has no influence on    *)
(* the result.                                                             *)
(***************************************************************************)
C7_MaritalClause ==
    /\ (called /\ ArgCriteria.MaritalStatus # EmptyString
          /\ ~ EqualFold(ArgCriteria.MaritalStatus, argApplicant.MaritalStatus))
       => ~ ret
    /\ (called /\ ArgCriteria.MaritalStatus = EmptyString)
       => \A m \in ApplicantMaritalValues \cup CriteriaMaritalValues :
              isEligible([argApplicant EXCEPT !.MaritalStatus = m], argScheme, nowYear) = ret

\* A marital mismatch is the only clause that fails.
C7_Witness ==
    /\ called /\ ~ ret
    /\ ArgCriteria.MaritalStatus = S_single
    /\ argApplicant.MaritalStatus = S_married
    /\ EmploymentSatisfied /\ ChildrenSatisfied

(***************************************************************************)
(* C8: with school level "primary" the children clause passes if and only  *)
(* if some household member has a relation containing "son" or "daughter"  *)
(* and a year difference (current year minus birth year) in 6..12: a       *)
(* "daughter" with difference 6 or 12 satisfies it, with 5 or 13 does not, *)
(* and an empty household always fails it.                                 *)
(***************************************************************************)
C8_PrimaryAgeRange ==
    (called /\ ArgSchoolLevel = S_primary) =>
        /\ (EmploymentSatisfied /\ MaritalSatisfied) => (ret <=> SomePrimaryChild)
        /\ ArgHousehold = << >> => ~ ret
        /\ (OnlyChildrenCriterion /\ (OneDaughter(6) \/ OneDaughter(12))) => ret
        /\ (OneDaughter(5) \/ OneDaughter(13)) => ~ ret

\* The upper boundary: one daughter, year difference 12.
C8_Witness ==
    /\ called /\ ret
    /\ ArgSchoolLevel = S_primary
    /\ OneDaughter(12)

(***************************************************************************)
(* C9: a household member counts as a child exactly when its relation,     *)
(* lower-cased, contains "son" or "daughter": "Step-Son", "SON" and        *)
(* "Daughter" count, "spouse" does not.                                    *)
(***************************************************************************)
C9_RelationSubstring ==
    (called /\ ArgSchoolLevel = S_primary /\ OnlyChildrenCriterion) =>
        (ret <=> \E i \in 1..Len(ArgHousehold) :
                     /\ ArgHousehold[i].Relation \in ChildRelations
                     /\ YearDifference(ArgHousehold[i]) \in 6..12)

\* A "Step-Son" of primary-school age is the only member.
C9_Witness ==
    /\ called /\ ret
    /\ ArgSchoolLevel = S_primary
    /\ Len(ArgHousehold) = 1
    /\ ArgHousehold[1].Relation = S_StepSon

(***************************************************************************)
(* C10: for a school-level criterion that is non-empty and not exactly     *)
(* "primary" ("Primary" and "secondary" included) no household member      *)
(* matches and isEligible returns false for every applicant, whatever the  *)
(* household.                                                              *)
(***************************************************************************)
C10_OtherSchoolLevelsFail ==
    (called /\ ArgSchoolLevel # EmptyString /\ ArgSchoolLevel # S_primary) => ~ ret

\* "Primary" with a daughter of primary-school age, nothing else asked.
C10_Witness ==
    /\ called /\ ~ ret
    /\ ArgSchoolLevel = S_Primary
    /\ OnlyChildrenCriterion
    /\ OneDaughter(6)

=============================================================================
